---- MODULE Spec2Model ----
(***************************************************************************)
(* Daily_AI_Paper_Bot: the notification delivery layer.                    *)
(*                                                                         *)
(* FeishuNotifier (src/notification/feishu.py) and WeChatNotifier          *)
(* (src/notification/wechat.py) as one sequential state machine: the       *)
(* program is single-threaded, so one notifier call is in progress at a    *)
(* time and pc is the position inside it.                                *)
(*                                                                         *)
(* Time is counted in ticks of 1/RATE_LIMIT_PER_SECOND seconds, the        *)
(* smallest duration the code computes with (1 / RATE_LIMIT_PER_SECOND).   *)
(* The code uses its timestamps only through time.time() - timestamp, so   *)
(* the model keeps each timestamp as its age, the time elapsed since it    *)
(* was taken; an age stops growing at the largest value the code           *)
(* distinguishes (60 s for the window start, the spacing for the last      *)
(* request).                                                               *)
(* A text is a sequence of lines; a line is a short sequence of characters *)
(* followed by pad filler bytes (plain ASCII letters that take part in   *)
(* no markdown pattern), so that a 20 KB message is a small value.         *)
(***************************************************************************)
EXTENDS Integers, Sequences, FiniteSets, TLC

(* ------------------------------ bounds -------------------------------- *)

\* send calls explored per notifier
MaxSends == 3

\* FeishuNotifier.RATE_LIMIT_PER_MINUTE is 100 in the source; the limit is a
\* parameter N of the rate limiter and is explored at a small value
RATE_LIMIT_PER_MINUTE == 2

(* ------------------------- program constants -------------------------- *)

RATE_LIMIT_PER_SECOND == 5

MAX_REQUEST_SIZE == 20 * 1024

\* one retry more than the default
FourRetries == 3 + 1

\* _retry_send(self, data, max_retries: int = 3)
max_retries == 3

THROTTLE_CODE == 11232

PEAK_HOURS == << <<10, 0>>, <<10, 30>>, <<17, 0>>, <<17, 30>> >>

\* ticks per second: one tick is 1 / RATE_LIMIT_PER_SECOND seconds
Second == RATE_LIMIT_PER_SECOND

\* 1 / self.RATE_LIMIT_PER_SECOND, in ticks
MinSpacing == Second \div RATE_LIMIT_PER_SECOND

\* the 60 of elapsed_minute >= 60 and 60 - elapsed_minute
Window == 60 * Second

\* time.sleep(30) of the peak-hour deferral
PeakDelay == 30 * Second

\* time.sleep(60) after the throttling code
BackoffDelay == 60 * Second

\* time.sleep(5) before each retry
RetryDelay == 5 * Second

\* self.timeout = 30.0
Timeout == 30 * Second

\* attributes the Settings class defines
SettingsAttrs ==
    {"NVIDIA_API_KEY", "SEMANTIC_SCHOLAR_API_KEY", "WECHAT_WEBHOOK",
     "NVIDIA_API_BASE_URL", "NVIDIA_MODEL", "ARXIV_SEARCH_TOPICS",
     "LLM_TEMPERATURE", "LLM_MAX_TOKENS", "LLM_MAX_RETRIES",
     "LLM_RETRY_DELAY", "HTTP_TIMEOUT", "HTTP_RETRY_DELAY", "MAX_PAPERS",
     "REPORT_FILE"}

(* ------------------------------- text --------------------------------- *)

Line(t, p) == [text |-> t, pad |-> p]

\* bytes of one character in UTF-8
\* ("bullet" is the character U+2022, three bytes; "backtick" is U+0060)
CharBytes(c) == IF c = "bullet" THEN 3 ELSE 1

RECURSIVE SeqBytes(_)
SeqBytes(s) == IF s = << >> THEN 0 ELSE CharBytes(Head(s)) + SeqBytes(Tail(s))

\* len(line.encode('utf-8'))
LineBytes(l) == SeqBytes(l.text) + l.pad

RECURSIVE LinesBytes(_)
LinesBytes(ls) == IF ls = << >> THEN 0 ELSE LineBytes(Head(ls)) + LinesBytes(Tail(ls))

\* len(message.encode('utf-8')): the lines and the line breaks between them
Utf8Len(m) == IF m = << >> THEN 0 ELSE LinesBytes(m) + (Len(m) - 1)

IsPrefix(p, s) == Len(p) <= Len(s) /\ SubSeq(s, 1, Len(p)) = p

\* str.replace(old, new): leftmost non-overlapping occurrences
RECURSIVE Replace(_, _, _)
Replace(s, old, new) ==
    IF Len(s) < Len(old) THEN s
    ELSE IF IsPrefix(old, s)
         THEN new \o Replace(SubSeq(s, Len(old) + 1, Len(s)), old, new)
         ELSE <<Head(s)>> \o Replace(Tail(s), old, new)

\* the replace chain of _markdown_to_text on the characters of one line
MarkdownToTextChars(s) ==
    LET t1 == Replace(s, <<"#", "#", "#", " ">>, << >>)
        t2 == Replace(t1, <<"#", "#", " ">>, << >>)
        t3 == Replace(t2, <<"#", " ">>, << >>)
        t4 == Replace(t3, <<"*", "*">>, << >>)
        t5 == Replace(t4, <<"[">>, << >>)
        t6 == Replace(t5, <<"]", "(">>, <<" ">>)
        t7 == Replace(t6, <<")">>, << >>)
        t8 == Replace(t7, <<">", " ">>, << >>)
        t9 == Replace(t8, <<"*", " ">>, <<"bullet", " ">>)
    IN  Replace(t9, <<"backtick">>, << >>)

\* a conversion that leaves the markdown as it is
MarkdownUnchanged(m) == m

\* no pattern contains a line break, so the chain acts line by line
_markdown_to_text(m) ==
    [i \in 1..Len(m) |-> Line(MarkdownToTextChars(m[i].text), m[i].pad)]

\* the truncation notice between its two asterisks: 57 bytes in UTF-8, and no
\* pattern of _markdown_to_text occurs in it
NoticeLine == Line(<<"*", "t", "*">>, 54)

\* the loop of _compress_message: the lines kept before the first line that
\* does not fit under max_size - 100
RECURSIVE CompressKeep(_, _, _)
CompressKeep(ls, current_size, max_size) ==
    IF ls = << >> THEN << >>
    ELSE IF current_size + LineBytes(Head(ls)) + 1 > max_size - 100
         THEN <<Line(<< >>, 0), Line(<< >>, 0), NoticeLine>>
         ELSE <<Head(ls)>> \o
              CompressKeep(Tail(ls), current_size + LineBytes(Head(ls)) + 1, max_size)

_compress_message(m, max_size) ==
    IF Utf8Len(m) <= max_size THEN m ELSE CompressKeep(m, 0, max_size)


(* ------------------------------ inputs -------------------------------- *)

PlainMessage == << Line(<<"a">>, 0) >>

RichMessage ==
    << Line(<<"#", " ", "*", "*", "a", "*", "*">>, 0),
       Line(<<"[", "a", "]", "(", "u", ")">>, 0),
       Line(<<"*", " ", "backtick", "c", "backtick">>, 0) >>

\* two lines of 12003 bytes each: over MAX_REQUEST_SIZE as a whole
BigMessage == << Line(<<"#", " ", "a">>, 12000), Line(<<"*", " ", "b">>, 12000) >>

Messages == {PlainMessage, RichMessage, BigMessage}

\* a webhook URL, or "" for None / not configured
Urls == {"", "url"}

\* outcomes of httpx.post: it raises, or it returns a response after lat ticks
HttpOutcomes ==
    {[exc |-> "ConnectError", status |-> 0, json_ok |-> FALSE, code |-> 0, lat |-> 0],
     [exc |-> "TimeoutException", status |-> 0, json_ok |-> FALSE, code |-> 0,
      lat |-> Timeout]}
    \cup
    [exc : {""}, status : {200, 500}, json_ok : BOOLEAN,
     code : {0, THROTTLE_CODE, 19001}, lat : {0, MinSpacing}]

\* wall-clock readings (hour, minute) of datetime.now(): around the marks
\* 10:00 and 17:30, and noon
WallTimes ==
    {<<9, 54>>, <<9, 55>>, <<9, 59>>, <<10, 0>>, <<10, 5>>, <<10, 6>>,
     <<12, 0>>, <<17, 25>>, <<17, 35>>, <<17, 36>>}

\* time that passes while no call is in progress
IdleGaps == {MinSpacing, Window}

(* ------------------------------- state -------------------------------- *)

VARIABLES
    notifier,           \* which notifier object the run is about
    webhook_url,        \* self.webhook_url
    request_count,      \* self.request_count
    minute_age,         \* time.time() - self.minute_start_time, up to Window
    last_age,           \* time.time() - self.last_request_time, up to MinSpacing
    pc,                 \* position of the call in progress
    message,            \* send: the message after the size guard
    data,               \* _send_with_type / _retry_send: the request body
    attempt,            \* _retry_send: loop index
    elapsed_minute,     \* _wait_for_rate_limit: elapsed_minute
    time_since_last,    \* _wait_for_rate_limit: current_time - last_request_time
    wall,               \* _is_peak_hour: (now.hour, now.minute)
    result,             \* return value of the last send
    raised,             \* exception that left send, "" if none
    sends,              \* send calls made so far
    last_sleep,         \* history: length of the time.sleep of the last step
    sent,               \* history: HTTP requests issued by the current call
    waited,             \* history: the current call slept before delivering
    prev_age,           \* history: time since the previous HTTP attempt ended
    window_sends,       \* history: sends that entered the current window
    nth,                \* history: rank of the current send in its window
    content,            \* _send_segmented: the content being delivered
    segments,           \* _send_segmented: segments
    seg_i,              \* _send_segmented: i, the number of the current segment
    all_success,        \* _send_segmented: all_success
    seg_pc,             \* position inside _send_segmented
    seg_log,            \* history: result and pause of each segment sent
    call,               \* the helper or pure function called last
    args,               \* its argument
    ret,                \* its return value
    parse_pc,           \* _parse_llm_summary: position ("none", "loop", "returned")
    parse_lines,        \* _parse_llm_summary: the lines not read yet
    parse_result,       \* _parse_llm_summary: result
    current_section     \* _parse_llm_summary: current_section, "" for None

\* the variables of _send_segmented
segvars == <<content, segments, seg_i, all_success, seg_pc, seg_log>>

\* the variables of a helper or pure function call
callvars == <<call, args, ret>>

\* the variables of _parse_llm_summary run line by line
parsevars == <<parse_pc, parse_lines, parse_result, current_section>>

vars ==
    <<notifier, webhook_url, request_count, minute_age, last_age, pc,
      message, data, attempt, elapsed_minute, time_since_last, wall, result,
      raised, sends, last_sleep, sent, waited, prev_age, window_sends, nth,
      segvars, callvars, parsevars>>

NoData == [msg_type |-> "", text |-> << >>]

NoWall == <<0, 0>>

\* an age after d more ticks
Aged(age, d, cap) == IF age + d > cap THEN cap ELSE age + d

Init ==
    /\ notifier = "none"
    /\ webhook_url = ""
    /\ request_count = 0
    /\ minute_age = 0
    /\ last_age = MinSpacing
    /\ pc = "new"
    /\ message = << >>
    /\ data = NoData
    /\ attempt = 0
    /\ elapsed_minute = 0
    /\ time_since_last = 0
    /\ wall = NoWall
    /\ result = "none"
    /\ raised = ""
    /\ sends = 0
    /\ last_sleep = 0
    /\ sent = << >>
    /\ waited = FALSE
    /\ prev_age = MinSpacing
    /\ window_sends = 0
    /\ nth = 0
    /\ content = << >>
    /\ segments = << >>
    /\ seg_i = 0
    /\ all_success = TRUE
    /\ seg_pc = "none"
    /\ seg_log = << >>
    /\ call = "none"
    /\ args = << >>
    /\ ret = << >>
    /\ parse_pc = "none"
    /\ parse_lines = << >>
    /\ parse_result = << >>
    /\ current_section = ""

(* ---------------------------- construction ---------------------------- *)

\* FeishuNotifier.__init__(webhook_url=arg):
\*   self.webhook_url = webhook_url or Settings.FEISHU_WEBHOOK
\* Settings has no attribute FEISHU_WEBHOOK, so the right operand raises
\* AttributeError whenever it is evaluated. last_request_time = 0 is the
\* epoch: its age is beyond any spacing.
FeishuInit(arg) ==
    /\ pc = "new"
    /\ notifier' = "feishu"
    /\ IF arg # ""
       THEN /\ webhook_url' = arg
            /\ request_count' = 0
            /\ minute_age' = 0
            /\ last_age' = MinSpacing
            /\ pc' = "idle"
       ELSE IF "FEISHU_WEBHOOK" \in SettingsAttrs
       THEN /\ webhook_url' = ""
            /\ request_count' = 0
            /\ minute_age' = 0
            /\ last_age' = MinSpacing
            /\ pc' = "idle"
       ELSE /\ pc' = "init_failed"
            /\ UNCHANGED <<webhook_url, request_count, minute_age, last_age>>
    /\ UNCHANGED <<message, data, attempt, elapsed_minute, time_since_last,
                   wall, result, raised, sends, last_sleep, sent, waited,
                   prev_age, window_sends, nth>>

\* WeChatNotifier.__init__: self.webhook_url = Settings.WECHAT_WEBHOOK, the
\* value of the environment variable (env), None when it is not set
WeChatInit(env) ==
    /\ pc = "new"
    /\ notifier' = "wechat"
    /\ webhook_url' = env
    /\ pc' = "idle"
    /\ UNCHANGED <<request_count, minute_age, last_age, message, data,
                   attempt, elapsed_minute, time_since_last, wall, result,
                   raised, sends, last_sleep, sent, waited, prev_age,
                   window_sends, nth>>

\* no call is in progress: pc is "idle" when the last call has just returned
\* (or the notifier was just built) and "rested" when time has passed since
Quiet == pc \in {"idle", "rested"}

\* d ticks pass between two calls on the FeishuNotifier
Elapse(d) ==
    /\ pc = "idle"
    /\ notifier = "feishu"
    /\ pc' = "rested"
    /\ minute_age' = Aged(minute_age, d, Window)
    /\ last_age' = Aged(last_age, d, MinSpacing)
    /\ prev_age' = Aged(prev_age, d, MinSpacing)
    /\ last_sleep' = 0
    /\ UNCHANGED <<notifier, webhook_url, request_count, message, data,
                   attempt, elapsed_minute, time_since_last, wall, result,
                   raised, sends, sent, waited, window_sends, nth>>

(* --------------------------- the HTTP exchange ------------------------ *)

\* the classes that `except Exception` handles
ExceptionClasses == {"ConnectError", "TimeoutException", "JSONDecodeError"}

\* a handler that names the httpx errors only
CaughtHttpOnly(e) == e \in {"ConnectError", "TimeoutException"}

\* except Exception as e
Caught(e) == e \in ExceptionClasses

\* the exception raised between httpx.post and the verdict: by httpx.post
\* itself, or by response.json() on a body that is not JSON ("" if none)
ExcOf(o) ==
    IF o.exc # "" THEN o.exc
    ELSE IF o.status = 200 /\ ~o.json_ok THEN "JSONDecodeError"
    ELSE ""

\* a verdict that looks at the HTTP status only
FeishuOkStatusOnly(o) == o.exc = "" /\ o.status = 200 /\ o.json_ok

\* response.status_code == 200 and result.get('code') == 0
FeishuOk(o) == o.exc = "" /\ o.status = 200 /\ o.json_ok /\ o.code = 0

\* response.status_code == 200 and error_code == 11232
FeishuThrottled(o) ==
    o.exc = "" /\ o.status = 200 /\ o.json_ok /\ o.code = THROTTLE_CODE

\* response.status_code == 200 and result.get('errcode') == 0
WeChatOk(o) == o.exc = "" /\ o.status = 200 /\ o.json_ok /\ o.code = 0

\* history entry for one HTTP request: what was posted, whether the answer
\* was HTTP 200 with a zero code field, and whether a delivery attempt (not a
\* retry) was answered HTTP 200 with the throttling code
Entry(d, is_retry, o) ==
    [msg_type |-> d.msg_type, text |-> d.text, retry |-> is_retry,
     ok |-> (o.exc = "" /\ o.status = 200 /\ o.json_ok /\ o.code = 0),
     throttle |-> (~is_retry /\ o.exc = "" /\ o.status = 200 /\ o.json_ok
                   /\ o.code = 11232)]

(* --------------------------- WeChatNotifier --------------------------- *)

\* WeChatNotifier.send(m), with o the outcome of its httpx.post
WeChatSend(m, o) ==
    /\ pc = "idle"
    /\ notifier = "wechat"
    /\ raised = ""
    /\ sends < MaxSends
    /\ sends' = sends + 1
    /\ IF webhook_url = ""
       THEN /\ result' = "False"
            /\ sent' = << >>
            /\ UNCHANGED <<raised, data>>
       ELSE /\ data' = [msg_type |-> "markdown", text |-> m]
            /\ sent' = <<Entry(data', FALSE, o)>>
            /\ IF ExcOf(o) # ""
               THEN IF Caught(ExcOf(o))
                    THEN result' = "False" /\ UNCHANGED raised
                    ELSE result' = "none" /\ raised' = ExcOf(o)
               ELSE /\ result' = IF WeChatOk(o) THEN "True" ELSE "False"
                    /\ UNCHANGED raised
    /\ UNCHANGED <<notifier, webhook_url, request_count, minute_age, last_age,
                   pc, message, attempt, elapsed_minute, time_since_last,
                   wall, last_sleep, waited, prev_age, window_sends, nth>>

(* --------------------------- FeishuNotifier --------------------------- *)

\* send(m) up to the call of _wait_for_rate_limit: the webhook check and
\* the size guard
FeishuSend(m) ==
    /\ Quiet
    /\ notifier = "feishu"
    /\ raised = ""
    /\ sends < MaxSends
    /\ sends' = sends + 1
    /\ sent' = << >>
    /\ waited' = FALSE
    /\ nth' = 0
    /\ last_sleep' = 0
    /\ IF webhook_url = ""
       THEN /\ result' = "False"
            /\ pc' = "idle"
            /\ UNCHANGED message
       ELSE /\ result' = "none"
            /\ message' = IF Utf8Len(m) > MAX_REQUEST_SIZE
                          THEN _compress_message(m, MAX_REQUEST_SIZE)
                          ELSE m
            /\ pc' = "rate_limit"
    /\ UNCHANGED <<notifier, webhook_url, request_count, minute_age, last_age,
                   data, attempt, elapsed_minute, time_since_last, wall,
                   raised, prev_age, window_sends>>

\* a window test that lets the 60th second belong to the old window
WindowExpiredLate(elapsed) == elapsed > Window

\* elapsed_minute >= 60
WindowExpired(elapsed) == elapsed >= Window

\* _wait_for_rate_limit, the per-minute part up to its time.sleep
RateLimit ==
    /\ pc = "rate_limit"
    /\ elapsed_minute' = minute_age
    /\ time_since_last' = last_age
    /\ last_sleep' = 0
    /\ IF WindowExpired(minute_age)
       THEN /\ request_count' = 0
            /\ minute_age' = 0
            /\ pc' = "per_second"
            /\ window_sends' = 1
            /\ nth' = 1
       ELSE /\ pc' = IF request_count >= RATE_LIMIT_PER_MINUTE
                     THEN "minute_sleep" ELSE "per_second"
            /\ window_sends' = window_sends + 1
            /\ nth' = window_sends + 1
            /\ UNCHANGED <<request_count, minute_age>>
    /\ UNCHANGED <<notifier, webhook_url, last_age, message, data, attempt,
                   wall, result, raised, sends, sent, waited, prev_age>>

\* time.sleep(wait_time) with wait_time = 60 - elapsed_minute, then the reset
MinuteSleep ==
    /\ pc = "minute_sleep"
    /\ LET wait_time == Window - elapsed_minute
       IN  /\ last_sleep' = wait_time
           /\ last_age' = Aged(last_age, wait_time, MinSpacing)
           /\ prev_age' = Aged(prev_age, wait_time, MinSpacing)
    /\ request_count' = 0
    /\ minute_age' = 0
    /\ waited' = TRUE
    /\ window_sends' = 1
    /\ pc' = "per_second"
    /\ UNCHANGED <<notifier, webhook_url, message, data, attempt,
                   elapsed_minute, time_since_last, wall, result, raised,
                   sends, sent, nth>>

\* _wait_for_rate_limit, the per-second part; time_since_last comes from the
\* current_time read at the start of the function
PerSecond ==
    /\ pc = "per_second"
    /\ IF time_since_last < MinSpacing
       THEN LET wait_time == MinSpacing - time_since_last
            IN  /\ last_sleep' = wait_time
                /\ minute_age' = Aged(minute_age, wait_time, Window)
                /\ last_age' = Aged(last_age, wait_time, MinSpacing)
                /\ prev_age' = Aged(prev_age, wait_time, MinSpacing)
                /\ waited' = TRUE
       ELSE /\ last_sleep' = 0
            /\ UNCHANGED <<minute_age, last_age, prev_age, waited>>
    /\ pc' = "peak"
    /\ UNCHANGED <<notifier, webhook_url, request_count, message, data,
                   attempt, elapsed_minute, time_since_last, wall, result,
                   raised, sends, sent, window_sends, nth>>

InAnyBandFrom(i, hour, minute) ==
    \E k \in i..Len(PEAK_HOURS) :
        /\ hour = PEAK_HOURS[k][1]
        /\ PEAK_HOURS[k][2] - 5 <= minute
        /\ minute <= PEAK_HOURS[k][2] + 5

\* _is_peak_hour with now.hour = hour and now.minute = minute
_is_peak_hour(hour, minute) == InAnyBandFrom(1, hour, minute)

\* send: the peak-hour check at wall-clock time w and its time.sleep(30)
PeakCheck(w) ==
    /\ pc = "peak"
    /\ wall' = w
    /\ IF _is_peak_hour(w[1], w[2])
       THEN /\ last_sleep' = PeakDelay
            /\ minute_age' = Aged(minute_age, PeakDelay, Window)
            /\ last_age' = Aged(last_age, PeakDelay, MinSpacing)
            /\ prev_age' = Aged(prev_age, PeakDelay, MinSpacing)
            /\ waited' = TRUE
       ELSE /\ last_sleep' = 0
            /\ UNCHANGED <<minute_age, last_age, prev_age, waited>>
    /\ pc' = "markdown"
    /\ UNCHANGED <<notifier, webhook_url, request_count, message, data,
                   attempt, elapsed_minute, time_since_last, result, raised,
                   sends, sent, window_sends, nth>>

\* a send that goes back to markdown after the text attempt failed
ReturnedRetriesMarkdown(r, msg_type) ==
    IF r THEN result' = "True" /\ pc' = "idle"
    ELSE IF msg_type = "markdown" THEN pc' = "text" /\ UNCHANGED result
    ELSE pc' = "markdown" /\ UNCHANGED result

\* what send does with the value r that _send_with_type(..., msg_type)
\* returned: return True, fall back to text, or return the text result
Returned(r, msg_type) ==
    IF r THEN result' = "True" /\ pc' = "idle"
    ELSE IF msg_type = "markdown" THEN pc' = "text" /\ UNCHANGED result
    ELSE result' = "False" /\ pc' = "idle"

\* an exception e is raised inside the try of _send_with_type
Handled(e, msg_type) ==
    IF Caught(e) THEN Returned(FALSE, msg_type) /\ UNCHANGED raised
    ELSE raised' = e /\ pc' = "idle" /\ UNCHANGED result

\* the text that send passes to _send_with_type at position p
Payload(p) == IF p = "markdown" THEN message ELSE _markdown_to_text(message)

\* httpx.post with outcome o and the two statements after it, which run
\* only when httpx.post returned
Posted(o) ==
    /\ minute_age' = Aged(minute_age, o.lat, Window)
    /\ prev_age' = 0
    /\ IF o.exc # ""
       THEN /\ last_age' = Aged(last_age, o.lat, MinSpacing)
            /\ UNCHANGED request_count
       ELSE /\ request_count' = request_count + 1
            /\ last_age' = 0

\* _send_with_type(message, msg_type) up to its return or its time.sleep(60);
\* pc is the msg_type, o the outcome of httpx.post
SendWithType(o) ==
    /\ pc \in {"markdown", "text"}
    /\ data' = [msg_type |-> pc, text |-> Payload(pc)]
    /\ sent' = Append(sent, Entry(data', FALSE, o))
    /\ Posted(o)
    /\ last_sleep' = 0
    /\ wall' = NoWall
    /\ IF ExcOf(o) # "" THEN Handled(ExcOf(o), pc)
       ELSE IF FeishuOk(o) THEN Returned(TRUE, pc) /\ UNCHANGED raised
       ELSE IF FeishuThrottled(o)
       THEN pc' = "backoff" /\ UNCHANGED <<result, raised>>
       ELSE Returned(FALSE, pc) /\ UNCHANGED raised
    /\ UNCHANGED <<notifier, webhook_url, message, attempt, elapsed_minute,
                   time_since_last, sends, waited, window_sends, nth>>

\* time.sleep(60), then _retry_send(data) is entered
Backoff ==
    /\ pc = "backoff"
    /\ last_sleep' = BackoffDelay
    /\ minute_age' = Aged(minute_age, BackoffDelay, Window)
    /\ last_age' = Aged(last_age, BackoffDelay, MinSpacing)
    /\ prev_age' = Aged(prev_age, BackoffDelay, MinSpacing)
    /\ attempt' = 0
    /\ pc' = "retry_wait"
    /\ UNCHANGED <<notifier, webhook_url, request_count, message, data,
                   elapsed_minute, time_since_last, wall, result, raised,
                   sends, sent, waited, window_sends, nth>>

\* _retry_send: time.sleep(5) at the head of the loop body
RetryWait ==
    /\ pc = "retry_wait"
    /\ attempt < max_retries
    /\ last_sleep' = RetryDelay
    /\ minute_age' = Aged(minute_age, RetryDelay, Window)
    /\ last_age' = Aged(last_age, RetryDelay, MinSpacing)
    /\ prev_age' = Aged(prev_age, RetryDelay, MinSpacing)
    /\ pc' = "retry_post"
    /\ UNCHANGED <<notifier, webhook_url, request_count, message, data,
                   attempt, elapsed_minute, time_since_last, wall, result,
                   raised, sends, sent, waited, window_sends, nth>>

\* _retry_send: the rest of the loop body, and the return False after the
\* last iteration
RetryPost(o) ==
    /\ pc = "retry_post"
    /\ sent' = Append(sent, Entry(data, TRUE, o))
    /\ Posted(o)
    /\ last_sleep' = 0
    /\ IF ExcOf(o) # "" /\ ~Caught(ExcOf(o))
       THEN raised' = ExcOf(o) /\ pc' = "idle" /\ UNCHANGED <<result, attempt>>
       ELSE IF ExcOf(o) = "" /\ FeishuOk(o)
       THEN Returned(TRUE, data.msg_type) /\ UNCHANGED <<raised, attempt>>
       ELSE /\ attempt' = attempt + 1
            /\ UNCHANGED raised
            /\ IF attempt + 1 < max_retries
               THEN pc' = "retry_wait" /\ UNCHANGED result
               ELSE Returned(FALSE, data.msg_type)
    /\ UNCHANGED <<notifier, webhook_url, message, data, elapsed_minute,
                   time_since_last, wall, sends, waited, window_sends, nth>>

\* the calls on a notifier and the steps of its send; no report is being
\* delivered in segments and no helper is called
Next ==
    \/ (\E arg \in Urls : FeishuInit(arg)) /\ UNCHANGED <<segvars, callvars, parsevars>>
    \/ (\E env \in Urls : WeChatInit(env)) /\ UNCHANGED <<segvars, callvars, parsevars>>
    \/ (\E d \in IdleGaps : Elapse(d)) /\ UNCHANGED <<segvars, callvars, parsevars>>
    \/ (\E m \in Messages, o \in HttpOutcomes : WeChatSend(m, o))
          /\ UNCHANGED <<segvars, callvars, parsevars>>
    \/ (\E m \in Messages : FeishuSend(m)) /\ UNCHANGED <<segvars, callvars, parsevars>>
    \/ RateLimit /\ UNCHANGED <<segvars, callvars, parsevars>>
    \/ MinuteSleep /\ UNCHANGED <<segvars, callvars, parsevars>>
    \/ PerSecond /\ UNCHANGED <<segvars, callvars, parsevars>>
    \/ (\E w \in WallTimes : PeakCheck(w)) /\ UNCHANGED <<segvars, callvars, parsevars>>
    \/ (\E o \in HttpOutcomes : SendWithType(o))
          /\ UNCHANGED <<segvars, callvars, parsevars>>
    \/ Backoff /\ UNCHANGED <<segvars, callvars, parsevars>>
    \/ RetryWait /\ UNCHANGED <<segvars, callvars, parsevars>>
    \/ (\E o \in HttpOutcomes : RetryPost(o)) /\ UNCHANGED <<segvars, callvars, parsevars>>

Spec == Init /\ [][Next]_vars


(* ------------------------------ properties ---------------------------- *)

\* a send call has returned to its caller
Completed == Quiet /\ sends > 0 /\ raised = ""

\* some request of the current call was answered HTTP 200 with code 0
AnyOk == \E i \in 1..Len(sent) : sent[i].ok

\* the current step issues an HTTP request
Posts == Len(sent') = Len(sent) + 1

Last(q) == q[Len(q)]

\* C1: on a notifier with no webhook URL configured, send returns False as
\* a silent skip: no error, no HTTP request, no sleep, and request_count,
\* minute_start_time and last_request_time as the constructor left them.
C1_SilentSkip ==
    (notifier # "none" /\ webhook_url = "") =>
        /\ pc # "init_failed"
        /\ raised = ""
        /\ sends > 0 => result = "False"
        /\ sent = << >>
        /\ ~waited
        /\ last_sleep = 0
        /\ request_count = 0
        /\ last_age = MinSpacing

C3_TrueIffOk ==
    /\ Completed => (result = "True" <=> AnyOk)
    /\ \A i \in 1..(Len(sent) - 1) : ~sent[i].ok

\* C3 witness: a Feishu send returned True on the second retry of its text
\* attempt
C3_Witness ==
    /\ notifier = "feishu"
    /\ Completed
    /\ result = "True"
    /\ Len(sent) >= 4
    /\ Last(sent).ok
    /\ Last(sent).retry
    /\ Last(sent).msg_type = "text"

\* C4: every HTTP attempt of a FeishuNotifier (markdown, text, retry) adds
\* one to request_count and sets last_request_time to the time of the
\* attempt, whatever its outcome.
C4_EveryAttemptCounted ==
    [][(notifier = "feishu" /\ Posts) =>
          (request_count' = request_count + 1 /\ last_age' = 0)]_vars

\* C5: the (N+1)th send within one minute window of a notifier with
\* per-minute limit N sleeps before its delivery attempt.
C5_WaitOnNPlusFirst ==
    (notifier = "feishu" /\ pc = "markdown" /\ nth > RATE_LIMIT_PER_MINUTE)
        => waited

\* C6: an HTTP request of a FeishuNotifier is issued no sooner than
\* 1/RATE_LIMIT_PER_SECOND seconds after the previous one.
C6_MinSpacing ==
    [][(notifier = "feishu" /\ Posts) => prev_age >= MinSpacing]_vars

\* C7: at the rate-limit step, 60 s or more after the window start the
\* counter is reset and the window restarts now; otherwise, with the counter
\* at the limit, send sleeps for the rest of the window, then resets the
\* counter and restarts the window; otherwise counter and window are kept.
C7_FixedWindow ==
    [][/\ pc = "rate_limit" =>
            IF minute_age >= Window
            THEN request_count' = 0 /\ minute_age' = 0 /\ pc' = "per_second"
            ELSE /\ UNCHANGED <<request_count, minute_age>>
                 /\ pc' = IF request_count >= RATE_LIMIT_PER_MINUTE
                          THEN "minute_sleep" ELSE "per_second"
       /\ pc = "minute_sleep" =>
            /\ last_sleep' = Window - minute_age
            /\ request_count' = 0
            /\ minute_age' = 0
            /\ pc' = "per_second"]_vars

\* C7 witness: the sleep for the rest of the window has just ended
C7_Witness ==
    /\ pc = "per_second"
    /\ last_sleep > 0
    /\ request_count = 0
    /\ minute_age = 0
    /\ nth > 1

\* minutes between two times of day, the shorter way round the clock
ClockDistance(a, b) ==
    LET d == IF a >= b THEN a - b ELSE b - a
    IN  IF d > 12 * 60 THEN 24 * 60 - d ELSE d

\* the time of day w is within 5 minutes of a peak mark
WithinBand(w) ==
    \E k \in 1..Len(PEAK_HOURS) :
        ClockDistance(w[1] * 60 + w[2], PEAK_HOURS[k][1] * 60 + PEAK_HOURS[k][2]) <= 5

\* C8: send sleeps the extra 30 s before delivering exactly when the wall
\* clock is within 5 minutes on either side of a peak mark.
C8_PeakBand ==
    pc = "markdown" => (last_sleep = PeakDelay <=> WithinBand(wall))

\* characters that the plain-text rendering removes wherever they occur
NoMarkup(m) ==
    \A i \in 1..Len(m) : \A j \in 1..Len(m[i].text) :
        m[i].text[j] \notin {"[", ")", "backtick"}

\* RichMessage as plain text: "a", "a u", "(bullet) c"
RichText ==
    << Line(<<"a">>, 0), Line(<<"a", " ", "u">>, 0),
       Line(<<"bullet", " ", "c">>, 0) >>

\* C9: the first request of a Feishu send is the markdown attempt with the
\* message; text requests come only after every markdown request failed,
\* from one text attempt, and carry the plain-text rendering of the message.
C9_MarkdownThenText ==
    notifier = "feishu" =>
        /\ sent # << >> =>
              /\ sent[1].msg_type = "markdown"
              /\ ~sent[1].retry
              /\ sent[1].text = message
        /\ \A i \in 1..Len(sent) :
              /\ sent[i].msg_type \in {"markdown", "text"}
              /\ sent[i].msg_type = "markdown" => sent[i].text = message
              /\ sent[i].msg_type = "text" =>
                    /\ \A j \in 1..(i - 1) : ~sent[j].ok
                    /\ \E j \in 1..(i - 1) : sent[j].msg_type = "markdown"
                    /\ \A j \in (i + 1)..Len(sent) : sent[j].msg_type = "text"
                    /\ NoMarkup(sent[i].text)
                    /\ Len(sent[i].text) = Len(message)
                    /\ message = RichMessage => sent[i].text = RichText
        /\ Cardinality({i \in 1..Len(sent) :
                           sent[i].msg_type = "text" /\ ~sent[i].retry}) <= 1
        /\ Cardinality({i \in 1..Len(sent) :
                           sent[i].msg_type = "markdown" /\ ~sent[i].retry}) <= 1

\* C9 witness: the markdown attempt failed and the text attempt delivered
\* the rich message
C9_Witness ==
    /\ notifier = "feishu"
    /\ Completed
    /\ message = RichMessage
    /\ result = "True"
    /\ Len(sent) = 2
    /\ sent[2].msg_type = "text"

\* the retries at the end of the history
RECURSIVE TrailingRetries(_)
TrailingRetries(q) ==
    IF q = << >> \/ ~Last(q).retry THEN 0
    ELSE 1 + TrailingRetries(SubSeq(q, 1, Len(q) - 1))

\* the attempt that the retries at the end of the history belong to
Throttled(q) == q[Len(q) - TrailingRetries(q)]

\* C10: a delivery attempt answered HTTP 200 with code 11232 is followed by
\* a 60 s sleep and then by at most 3 retries of the same payload, each
\* after a 5 s sleep; the first retry answered HTTP 200 with code 0 makes
\* send return True, and after 3 failed retries the attempt has failed.
C10_ThrottleBackoff ==
    [][/\ (Posts /\ notifier = "feishu" /\ ~Last(sent').retry) =>
             (Last(sent').throttle <=> pc' = "backoff")
       /\ pc = "backoff" =>
             /\ last_sleep' = BackoffDelay
             /\ pc' = "retry_wait"
             /\ sent' = sent
       /\ pc = "retry_wait" =>
             /\ last_sleep' = RetryDelay
             /\ pc' = "retry_post"
             /\ sent' = sent
       /\ pc = "retry_post" =>
             /\ Posts
             /\ Last(sent').retry
             /\ TrailingRetries(sent') <= 3
             /\ Throttled(sent').throttle
             /\ Last(sent').text = Throttled(sent').text
             /\ Last(sent').msg_type = Throttled(sent').msg_type
             /\ IF Last(sent').ok
                THEN result' = "True" /\ pc' = "idle"
                ELSE IF TrailingRetries(sent') < 3
                THEN pc' = "retry_wait"
                ELSE IF Last(sent').msg_type = "markdown"
                THEN pc' = "text"
                ELSE result' = "False" /\ pc' = "idle"]_vars

\* C10 witness: both attempts were throttled and all six retries failed
C10_Witness ==
    /\ Completed
    /\ result = "False"
    /\ Len(sent) = 8
    /\ sent[1].throttle
    /\ sent[5].throttle

\* the msg_type of the attempt that a step of send belongs to
AttemptType == IF pc \in {"markdown", "text"} THEN pc ELSE data.msg_type

\* an upper bound on the steps that a send at this position still takes:
\* an attempt is one post, one back-off and three times a wait and a post
SendRank ==
    LET base == IF AttemptType = "markdown" THEN 8 ELSE 0
    IN  CASE pc = "rate_limit" -> 20
          [] pc = "minute_sleep" -> 19
          [] pc = "per_second" -> 18
          [] pc = "peak" -> 17
          [] pc \in {"markdown", "text"} -> base + 8
          [] pc = "backoff" -> base + 7
          [] pc = "retry_wait" -> base + 6 - 2 * attempt
          [] pc = "retry_post" -> base + 5 - 2 * attempt
          [] OTHER -> 0

\* C30: a FeishuNotifier.send call terminates, every step of it (a sleep
\* that ends, a request that returns or times out) bringing it nearer to
\* its return, and it issues at most 8 HTTP requests: a markdown attempt
\* and at most 3 retries of it, then a text attempt and at most 3 retries.
C30_BoundedSend ==
    [][notifier = "feishu" =>
          /\ Len(sent') <= 8
          /\ Len(SelectSeq(sent', LAMBDA e : ~e.retry)) <= 2
          /\ ~Quiet => (SendRank' < SendRank /\ SendRank' >= 0)
          /\ (Quiet /\ ~Quiet') => SendRank' = 20]_vars

\* C30 witness: a send that issued 8 requests and returned True on the last
C30_Witness ==
    /\ Completed
    /\ notifier = "feishu"
    /\ Len(sent) = 8
    /\ sent[8].ok
    /\ sent[8].msg_type = "text"
    /\ result = "True"

(* ------------------------ splitting into segments --------------------- *)

\* lines of a content explored per call
MaxLines == 3

\* the 500 of self.MAX_REQUEST_SIZE - 500
SEGMENT_RESERVE == 500

\* the variables of a notifier and of its send
sendvars ==
    <<notifier, webhook_url, request_count, minute_age, last_age, pc,
      message, data, attempt, elapsed_minute, time_since_last, wall, result,
      raised, sends, last_sleep, sent, waited, prev_age, window_sends, nth>>

\* lines of 0, 1, 9003, 19979, 19980, 19981 and 20481 bytes: around the
\* segment limit of 19980 bytes and over MAX_REQUEST_SIZE
LineSamples ==
    {Line(<< >>, 0), Line(<<"a">>, 0), Line(<<"#", " ", "a">>, 9000),
     Line(<<"b">>, 19978), Line(<<"c">>, 19979), Line(<<"bullet">>, 19978),
     Line(<<"d">>, 20480)}

\* content.split('\n') always has a first line
Contents == UNION {[1..n -> LineSamples] : n \in 1..MaxLines}

\* the segment boundary test: the line does not fit and a segment is open
Flushes(current_segment, current_size, line_size) ==
    /\ current_size + line_size > MAX_REQUEST_SIZE - SEGMENT_RESERVE
    /\ current_segment # << >>

\* a loop body that opens the new segment without the line that did not fit
NextSegmentDropsLine(flush, current_segment, line) ==
    IF flush THEN << >> ELSE Append(current_segment, line)

\* current_segment after the loop body: emptied on a flush, then the line
NextSegment(flush, current_segment, line) ==
    Append(IF flush THEN << >> ELSE current_segment, line)

\* the for loop of _send_segmented over lines, and the last segment
RECURSIVE SplitLoop(_, _, _, _)
SplitLoop(lines, segs, current_segment, current_size) ==
    IF lines = << >>
    THEN IF current_segment # << >> THEN Append(segs, current_segment) ELSE segs
    ELSE LET line == Head(lines)
             line_size == LineBytes(line) + 1
             flush == Flushes(current_segment, current_size, line_size)
         IN  SplitLoop(Tail(lines),
                       IF flush THEN Append(segs, current_segment) ELSE segs,
                       NextSegment(flush, current_segment, line),
                       (IF flush THEN 0 ELSE current_size) + line_size)

\* the segments of _send_segmented(content): each a run of lines to be
\* joined by line breaks
Segments(c) == SplitLoop(c, << >>, << >>, 0)

(* ---------------------- helpers called on their own ------------------- *)

\* the splitting part of _send_segmented on content c
SplitContent(c) ==
    /\ call = "none"
    /\ call' = "split"
    /\ args' = c
    /\ ret' = Segments(c)
    /\ UNCHANGED <<sendvars, segvars, parsevars>>


RECURSIVE Flatten(_)
Flatten(ss) == IF ss = << >> THEN << >> ELSE Head(ss) \o Flatten(Tail(ss))

\* s is a run of consecutive whole lines of c
IsRunOfLines(s, c) ==
    \E a \in 1..Len(c) : \E b \in a..Len(c) : s = SubSeq(c, a, b)

\* C11: _send_segmented splits only at line boundaries, and every segment
\* has a UTF-8 size of at most MAX_REQUEST_SIZE - 500 bytes.
C11_SegmentSize ==
    call = "split" =>
        \A k \in 1..Len(ret) :
            /\ IsRunOfLines(ret[k], args)
            /\ Utf8Len(ret[k]) <= MAX_REQUEST_SIZE - 500

\* C12: the segments, joined in order by line breaks, are the content: no
\* line is lost, duplicated or reordered.
C12_Reconstructs ==
    call = "split" => Flatten(ret) = args

\* C12 witness: a content of three lines was split into two segments
C12_Witness ==
    /\ call = "split"
    /\ Len(args) = 3
    /\ Len(ret) = 2
    /\ Len(ret[1]) = 2

(* -------------------------- segmented delivery ------------------------ *)

\* request_count, minute_start_time and last_request_time
ratevars == <<request_count, minute_age, last_age>>

\* contents of one, two and three segments, one whose only line is over
\* MAX_REQUEST_SIZE, and one whose second line, five list markers long, is
\* five bytes under MAX_REQUEST_SIZE
SegContents ==
    {PlainMessage, BigMessage,
     << Line(<<"a">>, 12000), Line(<<"b">>, 12000), Line(<<"c">>, 12000) >>,
     << Line(<<"d">>, 20480) >>,
     << Line(<<"e">>, 100),
        Line(<<"*", " ", "*", " ", "*", " ", "*", " ", "*", " ">>, 20465) >>}

\* outcomes of httpx.post explored during a segmented delivery: an
\* exception, success, an HTTP error and the throttling code
SegOutcomes ==
    {o \in HttpOutcomes :
        /\ o.lat = 0
        /\ o.exc = "" => (o.json_ok /\ o.code \in {0, THROTTLE_CODE})
        /\ o.status = 500 => o.code = 0}

SegWallTimes == {<<10, 0>>, <<12, 0>>}

\* _send_segmented(c) up to the first send: the split and the loop set-up
SendSegmented(c) ==
    /\ seg_pc = "none"
    /\ pc = "idle"
    /\ notifier = "feishu"
    /\ content' = c
    /\ segments' = Segments(c)
    /\ seg_i' = 1
    /\ all_success' = TRUE
    /\ seg_log' = << >>
    /\ seg_pc' = "send"
    /\ call' = "_send_segmented"
    /\ args' = c
    /\ ret' = << >>
    /\ UNCHANGED <<sendvars, parsevars>>

\* success = self.send(segment), up to the rate-limit step of that send
SegmentSend ==
    /\ seg_pc = "send"
    /\ FeishuSend(segments[seg_i])
    /\ seg_pc' = "sending"
    /\ UNCHANGED <<content, segments, seg_i, all_success, seg_log, callvars, parsevars>>

\* an all_success that is the success of the last segment sent
LastSuccessOnly(all, success) == success

\* if not success: all_success = False
NextAllSuccess(all, success) == IF ~success THEN FALSE ELSE all

\* the rest of the loop body once send has returned: all_success, and
\* time.sleep(1) after a segment that is not the last; after the last
\* segment _send_segmented returns all_success
SegmentReturn ==
    /\ seg_pc = "sending"
    /\ pc = "idle"
    /\ LET success == (result = "True")
           pause == IF seg_i < Len(segments) THEN Second ELSE 0
       IN  IF raised # ""
           THEN /\ seg_pc' = "raised"
                /\ UNCHANGED <<all_success, seg_i, seg_log, last_sleep,
                               minute_age, last_age, prev_age>>
           ELSE /\ all_success' = NextAllSuccess(all_success, success)
                /\ seg_log' = Append(seg_log, [segment |-> segments[seg_i],
                                               success |-> success,
                                               pause |-> pause])
                /\ last_sleep' = pause
                /\ minute_age' = Aged(minute_age, pause, Window)
                /\ last_age' = Aged(last_age, pause, MinSpacing)
                /\ prev_age' = Aged(prev_age, pause, MinSpacing)
                /\ IF seg_i < Len(segments)
                   THEN seg_i' = seg_i + 1 /\ seg_pc' = "send"
                   ELSE seg_pc' = "done" /\ UNCHANGED seg_i
    /\ UNCHANGED <<notifier, webhook_url, request_count, pc, message, data,
                   attempt, elapsed_minute, time_since_last, wall, result,
                   raised, sends, sent, waited, window_sends, nth,
                   content, segments, callvars, parsevars>>

(* ------------------ helper methods of a FeishuNotifier ---------------- *)

\* the variables of a notifier and of its send other than ratevars
othersendvars ==
    <<notifier, webhook_url, pc, message, data, attempt, elapsed_minute,
      time_since_last, wall, result, raised, sends, last_sleep, sent, waited,
      prev_age, window_sends, nth>>

\* a helper method can be called whenever no send is in progress
HelperCallable ==
    /\ notifier = "feishu"
    /\ pc = "idle"
    /\ seg_pc \in {"none", "done"}

\* a status method that also starts a new window once the old one is over
StatusRestartsWindow ==
    IF minute_age >= Window
    THEN request_count' = 0 /\ minute_age' = 0 /\ UNCHANGED last_age
    ELSE UNCHANGED ratevars

\* get_rate_limit_status assigns no attribute of the notifier
StatusAssignments == UNCHANGED ratevars

\* get_rate_limit_status() at wall-clock time w. Durations are in ticks;
\* last_request_seconds_ago, a clock reading against a timestamp the model
\* keeps only as an age up to the spacing, is left out of the result
GetRateLimitStatus(w) ==
    /\ HelperCallable
    /\ call' = "get_rate_limit_status"
    /\ args' = w
    /\ ret' = [requests_this_minute |-> request_count,
               requests_remaining |-> RATE_LIMIT_PER_MINUTE - request_count,
               seconds_until_reset |->
                   IF Window - minute_age > 0 THEN Window - minute_age ELSE 0,
               is_peak_hour |-> _is_peak_hour(w[1], w[2])]
    /\ StatusAssignments
    /\ UNCHANGED <<othersendvars, segvars, parsevars>>

\* _is_peak_hour() at wall-clock time w
IsPeakHour(w) ==
    /\ HelperCallable
    /\ call' = "_is_peak_hour"
    /\ args' = w
    /\ ret' = _is_peak_hour(w[1], w[2])
    /\ UNCHANGED <<sendvars, segvars, parsevars>>

\* _markdown_to_text(m)
MarkdownToText(m) ==
    /\ HelperCallable
    /\ call' = "_markdown_to_text"
    /\ args' = m
    /\ ret' = _markdown_to_text(m)
    /\ UNCHANGED <<sendvars, segvars, parsevars>>

\* _compress_message(m, self.MAX_REQUEST_SIZE)
CompressMessage(m) ==
    /\ HelperCallable
    /\ call' = "_compress_message"
    /\ args' = m
    /\ ret' = _compress_message(m, MAX_REQUEST_SIZE)
    /\ UNCHANGED <<sendvars, segvars, parsevars>>

\* a FeishuNotifier that delivers a report in segments, and the helper
\* methods called on it before and after
SegNext ==
    \/ (\E arg \in Urls : FeishuInit(arg)) /\ UNCHANGED <<segvars, callvars, parsevars>>
    \/ \E c \in SegContents : SendSegmented(c)
    \/ SegmentSend
    \/ RateLimit /\ UNCHANGED <<segvars, callvars, parsevars>>
    \/ MinuteSleep /\ UNCHANGED <<segvars, callvars, parsevars>>
    \/ PerSecond /\ UNCHANGED <<segvars, callvars, parsevars>>
    \/ (\E w \in SegWallTimes : PeakCheck(w)) /\ UNCHANGED <<segvars, callvars, parsevars>>
    \/ (\E o \in SegOutcomes : SendWithType(o)) /\ UNCHANGED <<segvars, callvars, parsevars>>
    \/ Backoff /\ UNCHANGED <<segvars, callvars, parsevars>>
    \/ RetryWait /\ UNCHANGED <<segvars, callvars, parsevars>>
    \/ (\E o \in SegOutcomes : RetryPost(o)) /\ UNCHANGED <<segvars, callvars, parsevars>>
    \/ SegmentReturn
    \/ \E w \in SegWallTimes : GetRateLimitStatus(w)
    \/ \E w \in SegWallTimes : IsPeakHour(w)
    \/ \E m \in Messages : MarkdownToText(m)
    \/ \E m \in Messages : CompressMessage(m)

SegSpec == Init /\ [][SegNext]_vars

\* C13: _send_segmented sends the segments in their order, each through
\* the whole send (size guard, rate-limit step, peak-hour check, delivery);
\* every segment is sent, also after a failed one; a pause of one second
\* follows each segment but the last; and the result is true exactly when
\* every send returned true.
C13_SegmentedDelivery ==
    [][/\ seg_pc = "send" =>
             /\ seg_pc' = "sending"
             /\ Len(seg_log) = seg_i - 1
             /\ sends' = sends + 1
             /\ pc' = "rate_limit"
             /\ message' = IF Utf8Len(segments[seg_i]) > MAX_REQUEST_SIZE
                           THEN _compress_message(segments[seg_i], MAX_REQUEST_SIZE)
                           ELSE segments[seg_i]
       /\ (seg_pc = "sending" /\ pc' = "per_second" /\ pc # "per_second") =>
             pc \in {"rate_limit", "minute_sleep"}
       /\ (seg_pc = "sending" /\ pc' = "peak" /\ pc # "peak") => pc = "per_second"
       /\ (seg_pc = "sending" /\ pc' = "markdown" /\ pc # "markdown") => pc = "peak"
       /\ (seg_pc = "sending" /\ Posts) => sent'[1].text = message
       /\ (seg_pc = "sending" /\ pc = "idle") =>
             LET pause == IF seg_i < Len(segments) THEN Second ELSE 0
             IN  /\ seg_log' = Append(seg_log, [segment |-> segments[seg_i],
                                                success |-> (result = "True"),
                                                pause |-> pause])
                 /\ last_sleep' = pause
                 /\ IF seg_i < Len(segments)
                    THEN seg_pc' = "send" /\ seg_i' = seg_i + 1
                    ELSE seg_pc' = "done"
       /\ seg_pc' = "done" =>
             /\ Len(seg_log') = Len(segments')
             /\ \A k \in 1..Len(segments') : seg_log'[k].segment = segments'[k]
             /\ all_success' <=> \A k \in 1..Len(seg_log') : seg_log'[k].success]_vars

\* C13 witness: three segments were sent, the first failed and the last
\* succeeded
C13_Witness ==
    /\ seg_pc = "done"
    /\ Len(segments) = 3
    /\ Len(seg_log) = 3
    /\ ~seg_log[1].success
    /\ seg_log[1].pause = Second
    /\ seg_log[3].success
    /\ seg_log[3].pause = 0
    /\ ~all_success

\* request_count is as it was and neither timestamp was set anew (an age
\* only grows while its timestamp stays)
RateFieldsKept ==
    /\ request_count' = request_count
    /\ minute_age' >= minute_age
    /\ last_age' >= last_age

\* C19: request_count, minute_start_time and last_request_time are assigned
\* only by the rate-limit step and the delivery and retry attempts of send;
\* get_rate_limit_status, _is_peak_hour, _markdown_to_text,
\* _compress_message and the splitting step leave them as they are.
C19_RateStateFrame ==
    [][/\ (/\ call' \in {"get_rate_limit_status", "_is_peak_hour",
                        "_markdown_to_text", "_compress_message"}
           /\ callvars' # callvars) => RateFieldsKept
       /\ (seg_pc = "none" /\ seg_pc' = "send") => RateFieldsKept
       /\ pc = "peak" => RateFieldsKept
       /\ (pc = "idle" /\ pc' = "rate_limit") => RateFieldsKept
       /\ ~RateFieldsKept =>
             pc \in {"rate_limit", "minute_sleep", "markdown", "text",
                     "retry_post"}]_vars

\* C19 witness: get_rate_limit_status was called after a delivery, with
\* requests counted and the window under way
C19_Witness ==
    /\ call = "get_rate_limit_status"
    /\ seg_pc = "done"
    /\ ret.requests_this_minute = request_count
    /\ request_count > 0
    /\ minute_age > 0
    /\ last_age < MinSpacing

\* C31: on a FeishuNotifier request_count never exceeds
\* RATE_LIMIT_PER_MINUTE, so no more requests than the limit are issued in
\* one window, and the requests_remaining that get_rate_limit_status
\* reports is never negative.
C31_CountWithinLimit ==
    notifier = "feishu" =>
        /\ request_count <= RATE_LIMIT_PER_MINUTE
        /\ call = "get_rate_limit_status" => ret.requests_remaining >= 0

\* C32: every body that FeishuNotifier.send posts, of type markdown (after
\* the size guard) or of type text (after _markdown_to_text), is at most
\* MAX_REQUEST_SIZE bytes long in UTF-8.
C32_BodyWithinSize ==
    notifier = "feishu" =>
        \A i \in 1..Len(sent) : Utf8Len(sent[i].text) <= MAX_REQUEST_SIZE

(* --------------------- strings of the formatters ---------------------- *)

\* A string is a sequence of pieces; a piece is n characters that take w
\* bytes each in UTF-8: one ASCII character, one emoji (4 bytes), a word of
\* CJK characters (3 bytes each), or a stretch of n filler letters. The
\* name c tells pieces apart.
Piece(c, n, w) == [c |-> c, n |-> n, w |-> w]

\* an ASCII literal, one piece per character
A(t) == [k \in 1..Len(t) |-> Piece(t[k], 1, 1)]

\* an ASCII literal of n characters kept as one piece
Lit(c, n) == << Piece(c, n, 1) >>

\* an emoji
E(c) == << Piece(c, 1, 4) >>

\* a word of n CJK characters (full-width punctuation included)
Z(c, n) == << Piece(c, n, 3) >>

\* n filler letters
X(n) == IF n = 0 THEN << >> ELSE << Piece("x", n, 1) >>

NL == << Piece("nl", 1, 1) >>

\* the characters and the bytes of the pieces i..j of s, by halves
RECURSIVE CharsIn(_, _, _)
CharsIn(s, i, j) ==
    IF i > j THEN 0
    ELSE IF i = j THEN s[i].n
    ELSE LET mid == (i + j) \div 2
         IN  CharsIn(s, i, mid) + CharsIn(s, mid + 1, j)

RECURSIVE BytesIn(_, _, _)
BytesIn(s, i, j) ==
    IF i > j THEN 0
    ELSE IF i = j THEN s[i].n * s[i].w
    ELSE LET mid == (i + j) \div 2
         IN  BytesIn(s, i, mid) + BytesIn(s, mid + 1, j)

\* len(s)
StrLen(s) == CharsIn(s, 1, Len(s))

\* len(s.encode('utf-8'))
StrBytes(s) == BytesIn(s, 1, Len(s))

\* the most whole pieces of s, between lo and hi of them, that have at most
\* k characters together
RECURSIVE WholePieces(_, _, _, _)
WholePieces(s, k, lo, hi) ==
    IF lo >= hi THEN lo
    ELSE LET mid == (lo + hi + 1) \div 2
         IN  IF CharsIn(s, 1, mid) <= k
             THEN WholePieces(s, k, mid, hi)
             ELSE WholePieces(s, k, lo, mid - 1)

\* s[:k] for k >= 0: the whole pieces that fit and the head of the next one
Take(s, k) ==
    IF k <= 0 THEN << >>
    ELSE LET p == WholePieces(s, k, 0, Len(s))
             rest == k - CharsIn(s, 1, p)
         IN  SubSeq(s, 1, p)
             \o (IF p < Len(s) /\ rest > 0
                 THEN << Piece(s[p + 1].c, rest, s[p + 1].w) >>
                 ELSE << >>)

\* sep.join(parts)
RECURSIVE Join(_, _)
Join(parts, sep) ==
    IF parts = << >> THEN << >>
    ELSE IF Len(parts) = 1 THEN parts[1]
    ELSE parts[1] \o sep \o Join(Tail(parts), sep)

IsSpace(pc1) == pc1.c \in {" ", "nl"}

\* not s.strip(): s has white space only
IsBlank(s) == \A k \in 1..Len(s) : IsSpace(s[k])

RECURSIVE LStrip(_)
LStrip(s) == IF s # << >> /\ IsSpace(Head(s)) THEN LStrip(Tail(s)) ELSE s

RECURSIVE RStrip(_)
RStrip(s) ==
    IF s # << >> /\ IsSpace(s[Len(s)]) THEN RStrip(SubSeq(s, 1, Len(s) - 1)) ELSE s

\* s.strip()
Strip(s) == RStrip(LStrip(s))

\* s.split(sep) for a separator of one piece: the stretches between the
\* occurrences of sep
SplitOn(s, sep) ==
    LET cuts == {i \in 1..Len(s) : s[i].c = sep}
        at(k) == IF k = 0 THEN 0
                 ELSE IF k > Cardinality(cuts) THEN Len(s) + 1
                 ELSE CHOOSE i \in cuts : Cardinality({j \in cuts : j <= i}) = k
    IN  [k \in 1..(Cardinality(cuts) + 1) |-> SubSeq(s, at(k - 1) + 1, at(k) - 1)]

\* s.split('\n')
SplitLines(s) == SplitOn(s, "nl")

\* old in s
Contains(s, old) ==
    \E i \in 1..(Len(s) - Len(old) + 1) : SubSeq(s, i, i + Len(old) - 1) = old

\* s.endswith(t)
EndsWith(s, t) == Len(t) <= Len(s) /\ SubSeq(s, Len(s) - Len(t) + 1, Len(s)) = t

\* filter(None, parts)
RECURSIVE NonEmpty(_)
NonEmpty(parts) ==
    IF parts = << >> THEN << >>
    ELSE IF Head(parts) = << >> THEN NonEmpty(Tail(parts))
    ELSE << Head(parts) >> \o NonEmpty(Tail(parts))

\* d.get(k, default) on a dict, a function whose domain is its keys
Get(d, k, default) == IF k \in DOMAIN d THEN d[k] ELSE default

\* str(n) for a count below ten
Digit(n) == A(<< <<"0", "1", "2", "3", "4", "5", "6", "7", "8", "9">>[n + 1] >>)

(* ----------------------- _parse_llm_summary --------------------------- *)

\* the full-width colon that ends a marker
Colon == Z("colon", 1)

\* the literal prefixes of the template lines: the title line, the original
\* title, the first author, the three section headers, the link, the source
TitleMarker == A(<<"#", "#", " ">>) \o E("page") \o A(<<" ">>) \o Z("paper_title", 4) \o Colon

OrigTitleMarker == A(<<"*", "*">>) \o Z("original_title", 3) \o A(<<"*", "*">>) \o Colon

AuthorMarker == A(<<"*", "*">>) \o Z("first_author", 4) \o A(<<"*", "*">>) \o Colon

SummaryHeader == A(<<"#", "#", "#", " ">>) \o E("target") \o A(<<" ">>) \o Z("core_summary", 4)

InnovationsHeader ==
    A(<<"#", "#", "#", " ">>) \o E("bulb") \o A(<<" ">>) \o Z("core_innovations", 8)

CommentHeader == A(<<"#", "#", "#", " ">>) \o E("monocle") \o A(<<" ">>) \o Z("comment", 5)

LinkMarker == E("link") \o A(<<" ", "*", "*">>) \o Z("original_link", 4) \o A(<<"*", "*">>) \o Colon

SourceMarker == E("books") \o A(<<" ", "*", "*">>) \o Z("source", 2) \o A(<<"*", "*">>) \o Colon

\* d[k] = v on a dict
Set(d, k, v) == [x \in DOMAIN d \cup {k} |-> IF x = k THEN v ELSE d[x]]

PrependToSection(parsed, sec, v) ==
    Set(parsed, "sections",
        Set(parsed["sections"], sec, << v >> \o parsed["sections"][sec]))

\* result['sections'][sec].append(v), result being the dict parsed
AppendToSection(parsed, sec, v) ==
    Set(parsed, "sections",
        Set(parsed["sections"], sec, Append(parsed["sections"][sec], v)))

\* stripped.replace(marker, '').strip()
AfterMarker(stripped, marker) == Strip(Replace(stripped, marker, << >>))

\* the dict that _parse_llm_summary starts from; WeChatFormatter's has the
\* key institution, FeishuFormatter's has not
EmptyParsed(cls) ==
    LET base == [title_zh |-> << >>, title_en |-> << >>, author |-> << >>,
                 source |-> << >>,
                 sections |-> [summary |-> << >>, innovations |-> << >>,
                               comment |-> << >>]]
    IN  IF cls = "WeChatFormatter" THEN Set(base, "institution", << >>) ELSE base

HeaderStored(parsed, sec, stripped) ==
    [parsed |-> AppendToSection(parsed, sec, stripped), current_section |-> sec]

\* current_section = sec on a section header: the line itself is not kept
HeaderRead(parsed, sec, stripped) == [parsed |-> parsed, current_section |-> sec]

InitialSectionSummary == "summary"

\* current_section = None before the loop
InitialSection == ""

\* the body of the for loop of _parse_llm_summary on one line: the dict and
\* the current section ("" for None) after it
ParseLine(cls, line, parsed, section) ==
    LET stripped == Strip(line)
        same(r) == [parsed |-> r, current_section |-> section]
        open(sec) == HeaderRead(parsed, sec, stripped)
    IN  IF stripped = << >> THEN same(parsed)
        ELSE IF IsPrefix(TitleMarker, stripped)
        THEN same(Set(parsed, "title_zh", AfterMarker(stripped, TitleMarker)))
        ELSE IF IsPrefix(OrigTitleMarker, stripped)
        THEN same(Set(parsed, "title_en", AfterMarker(stripped, OrigTitleMarker)))
        ELSE IF IsPrefix(AuthorMarker, stripped)
        THEN LET parts == SplitOn(AfterMarker(stripped, AuthorMarker), "|")
                 r1 == Set(parsed, "author", Strip(parts[1]))
             IN  same(IF cls = "WeChatFormatter"
                      THEN Set(r1, "institution",
                               IF Len(parts) > 1 THEN Strip(parts[2])
                               ELSE Z("unknown", 2))
                      ELSE r1)
        ELSE IF IsPrefix(SummaryHeader, stripped) THEN open("summary")
        ELSE IF IsPrefix(InnovationsHeader, stripped) THEN open("innovations")
        ELSE IF IsPrefix(CommentHeader, stripped) THEN open("comment")
        ELSE IF IsPrefix(LinkMarker, stripped)
        THEN same(Set(parsed, "url", AfterMarker(stripped, LinkMarker)))
        ELSE IF IsPrefix(SourceMarker, stripped)
        THEN same(Set(parsed, "source", AfterMarker(stripped, SourceMarker)))
        ELSE IF IsPrefix(A(<<"*">>), stripped) /\ section = "innovations"
        THEN LET innovation == Strip(Replace(stripped, A(<<"*">>), << >>))
             IN  same(IF innovation # << >>
                      THEN AppendToSection(parsed, "innovations", innovation)
                      ELSE parsed)
        ELSE IF /\ section # ""
                /\ ~IsPrefix(A(<<"#">>), stripped)
                /\ ~IsPrefix(A(<<"*", "*">>), stripped)
        THEN same(AppendToSection(parsed, section, stripped))
        ELSE same(parsed)

RECURSIVE ParseLoop(_, _, _, _)
ParseLoop(cls, unread, parsed, section) ==
    IF unread = << >> THEN parsed
    ELSE LET st == ParseLine(cls, Head(unread), parsed, section)
         IN  ParseLoop(cls, Tail(unread), st.parsed, st.current_section)

\* cls._parse_llm_summary(summary)
_parse_llm_summary(cls, summary) ==
    ParseLoop(cls, SplitLines(summary), EmptyParsed(cls), InitialSection)

(* --------------------------- the formatters --------------------------- *)

\* papers of a list explored per call
MaxPapers == 4

\* FeishuFormatter.MAX_PAPERS_DISPLAY
MAX_PAPERS_DISPLAY == 3

SUMMARY_MAX_LENGTH(cls) == IF cls = "WeChatFormatter" THEN 150 ELSE 120

INNOVATION_MAX_LENGTH(cls) == IF cls = "WeChatFormatter" THEN 80 ELSE 60

MAX_INNOVATIONS_DISPLAY(cls) == IF cls = "WeChatFormatter" THEN 3 ELSE 2

\* the default max_length of each formatter
DefaultMaxLength(cls) == IF cls = "WeChatFormatter" THEN 4000 ELSE 20 * 1024

\* str(date) of a datetime.date, and strftime('%Y-%m-%d %H:%M')
DateStr == Lit("date", 10)

NowStr == Lit("now", 16)

\* the default topic: 13 CJK characters, "LLM", 7 CJK characters
Topic == Z("topic_head", 13) \o A(<<"L", "L", "M">>) \o Z("topic_tail", 7)

Separator == A(<<"-", "-", "-">>)

\* "\n\n*...daily_report.md*": 33 characters, 59 bytes
TruncationNotice ==
    NL \o NL \o A(<<"*">>) \o Z("content_truncated", 13)
       \o Lit(" daily_report.md", 16) \o A(<<"*">>)

\* text[:limit - 3] + '...' when len(text) > limit
Shorten(text, limit) ==
    IF StrLen(text) > limit
    THEN Take(text, limit - 3) \o A(<<".", ".", ".">>)
    ELSE text

\* innovations[:MAX_INNOVATIONS_DISPLAY], each shortened and prefixed
RECURSIVE Bullets(_, _, _, _)
Bullets(cls, innovations, prefix, left) ==
    IF innovations = << >> \/ left = 0 THEN << >>
    ELSE << prefix \o Shorten(Head(innovations), INNOVATION_MAX_LENGTH(cls)) >>
         \o Bullets(cls, Tail(innovations), prefix, left - 1)

_format_summary(cls, summary_lines) ==
    IF summary_lines = << >> THEN << >>
    ELSE LET summary_text ==
                 Shorten(Join(summary_lines, A(<<" ">>)), SUMMARY_MAX_LENGTH(cls))
         IN  IF cls = "WeChatFormatter"
             THEN E("bulb") \o A(<<" ">>) \o summary_text
             ELSE A(<<"*", "*">>) \o E("bulb") \o A(<<" ">>) \o Z("core_summary", 4)
                  \o A(<<"*", "*", ":", " ">>) \o summary_text

_format_innovations(cls, innovations) ==
    IF innovations = << >> THEN << >>
    ELSE IF cls = "WeChatFormatter"
    THEN Join(<< A(<<">", " ">>) \o E("target") \o A(<<" ">>) \o Lit("<strong>", 8)
                 \o Z("core_innovation", 4) \o Lit("</strong>", 9) >>
              \o Bullets(cls, innovations,
                         A(<<">", " ">>) \o << Piece("bullet", 1, 3) >> \o A(<<" ">>),
                         MAX_INNOVATIONS_DISPLAY(cls)),
              NL)
    ELSE Join(<< A(<<"*", "*">>) \o E("target") \o A(<<" ">>)
                 \o Z("core_innovation", 4) \o A(<<"*", "*">>) >>
              \o Bullets(cls, innovations, A(<<"-", " ">>),
                         MAX_INNOVATIONS_DISPLAY(cls)),
              NL)

_format_comment(cls, comment_lines) ==
    IF comment_lines = << >> THEN << >>
    ELSE LET comment_text == Join(comment_lines, A(<<" ">>))
         IN  IF cls = "WeChatFormatter"
             THEN E("memo") \o A(<<" ">>) \o Lit("<strong>", 8) \o Z("short_comment", 2)
                  \o Lit("</strong>", 9) \o Colon \o comment_text
             ELSE A(<<"*", "*">>) \o E("memo") \o A(<<" ">>) \o Z("short_comment", 2)
                  \o A(<<"*", "*", ":", " ">>) \o comment_text

\* WeChatFormatter
_format_title(title_zh) ==
    E("pin") \o A(<<" ", "*", "*">>) \o title_zh \o A(<<"*", "*">>)

_format_subtitle(title_en) ==
    IF title_en = << >> THEN << >>
    ELSE Lit("<font color=info>", 19) \o title_en \o Lit("</font>", 7)

_format_info(author, source) ==
    A(<<">", " ">>) \o E("bust") \o A(<<" ">>) \o author
    \o (IF source # << >>
        THEN A(<<" ", "|", " ">>) \o E("books") \o A(<<" ">>) \o source
        ELSE << >>)

_format_link(url) ==
    IF url = << >> THEN << >>
    ELSE A(<<">", " ">>) \o E("link") \o A(<<" ", "[">>) \o E("book") \o A(<<" ">>)
         \o Z("read_original", 4) \o A(<<"]", "(">>) \o url \o A(<<")">>)

\* FeishuFormatter
_format_critical_info(author, source, url) ==
    Join(<< A(<<"*", "*">>) \o E("bust") \o A(<<"*", "*", ":", " ">>) \o author >>
         \o (IF source # << >>
             THEN << A(<<"*", "*">>) \o E("books") \o A(<<"*", "*", ":", " ">>) \o source >>
             ELSE << >>)
         \o (IF url # << >>
             THEN << A(<<"*", "*">>) \o E("link") \o A(<<"*", "*", ":", " ", "[">>)
                     \o url \o A(<<"]", "(">>) \o url \o A(<<")">>) >>
             ELSE << >>),
         NL)

\* paper['authors'][0] if paper.get('authors') else 'Unknown'
FirstAuthor(paper) ==
    IF Get(paper, "authors", << >>) # << >>
    THEN paper["authors"][1]
    ELSE Lit("Unknown", 7)

\* MarkdownFormatter.format_paper
MarkdownFormatPaper(paper) ==
    IF "summary" \in DOMAIN paper THEN paper["summary"]
    ELSE TitleMarker \o Get(paper, "title", << >>) \o NL
         \o AuthorMarker \o FirstAuthor(paper) \o NL
         \o NL \o SummaryHeader \o NL \o Get(paper, "abstract", Z("no_abstract", 3)) \o NL
         \o (IF "url" \in DOMAIN paper
             THEN NL \o E("link") \o A(<<" ", "*", "*">>) \o Z("original_link", 4)
                  \o A(<<"*", "*", ":", " ">>) \o paper["url"] \o NL
             ELSE << >>)
         \o (IF "source" \in DOMAIN paper
             THEN E("books") \o A(<<" ", "*", "*">>) \o Z("source", 2)
                  \o A(<<"*", "*", ":", " ">>) \o paper["source"] \o NL
             ELSE << >>)
         \o NL

\* cls.format_paper(paper)
format_paper(cls, paper) ==
    IF cls = "MarkdownFormatter" THEN MarkdownFormatPaper(paper)
    ELSE
    LET parsed == _parse_llm_summary(cls, Get(paper, "summary", << >>))
        title_zh == Get(parsed, "title_zh", Get(paper, "title", << >>))
        title_en == Get(parsed, "title_en", << >>)
        author == Get(parsed, "author", FirstAuthor(paper))
        source == Get(paper, "source", Get(parsed, "source", << >>))
        url == Get(paper, "url", << >>)
        sections == << _format_summary(cls, Get(parsed, "summary", << >>)),
                       _format_innovations(cls, Get(parsed, "innovations", << >>)),
                       _format_comment(cls, Get(parsed, "comment", << >>)) >>
    IN  IF cls = "WeChatFormatter"
        THEN Join(NonEmpty(<< _format_title(title_zh), _format_subtitle(title_en),
                              _format_info(author, source) >>
                           \o sections \o << _format_link(url) >>),
                  NL)
        ELSE Join(NonEmpty(<< A(<<"#", "#", " ">>) \o E("pin") \o A(<<" ">>) \o title_zh,
                              _format_critical_info(author, source, url) >>
                           \o sections),
                  NL)

\* for paper in papers: result.append(format_paper(paper)); result.append('---')
RECURSIVE PaperParts(_, _)
PaperParts(cls, ps) ==
    IF ps = << >> THEN << >>
    ELSE << format_paper(cls, Head(ps)), Separator >> \o PaperParts(cls, Tail(ps))

\* WeChatFormatter._build_header and _build_footer
WeChatHeader(count) ==
    A(<<"#", " ">>) \o E("calendar") \o A(<<" ", "A", "I", " ">>) \o Z("frontier_daily", 6)
    \o A(<<" ", "(">>) \o DateStr \o A(<<")">>) \o NL \o NL
    \o A(<<"*", "*">>) \o Z("topic", 2) \o A(<<"*", "*", ":", " ">>) \o Topic \o NL \o NL
    \o Z("selected_today", 6) \o A(<<" ">>) \o Digit(count) \o A(<<" ">>)
    \o Z("latest_papers", 5)

Footer(count) ==
    A(<<">", " ">>) \o E("calendar") \o A(<<" ">>) \o NowStr \o A(<<" ", "|", " ">>)
    \o E("chart") \o A(<<" ">>) \o Z("total", 1) \o A(<<"*", "*">>) \o Digit(count)
    \o A(<<"*", "*">>) \o Z("papers", 1)

\* the list result of WeChatFormatter.format_report
WeChatParts(ps) ==
    << WeChatHeader(Len(ps)), Separator >> \o PaperParts("WeChatFormatter", ps)
    \o << << >>, Footer(Len(ps)) >>

\* WeChatFormatter._truncate_message
_truncate_message(m, max_length) == Take(m, max_length) \o TruncationNotice

\* FeishuFormatter._build_header
FeishuHeader(displayed_count, total_count) ==
    A(<<"#", " ">>) \o E("calendar") \o A(<<" ", "*", "*", "A", "I", " ">>)
    \o Z("paper_daily", 4) \o A(<<"*", "*", " ", "|", " ">>) \o DateStr \o NL \o NL
    \o A(<<"*", "*">>) \o Z("topic", 2) \o A(<<"*", "*", ":", " ">>) \o Topic \o NL \o NL
    \o Z("selected", 2) \o A(<<" ", "*", "*">>) \o Digit(displayed_count)
    \o A(<<"*", "*", " ">>)
    \o (IF displayed_count < total_count
        THEN Z("papers_of", 3) \o A(<<" ">>) \o Digit(total_count) \o A(<<" ">>)
             \o Z("papers_close", 2)
        ELSE Z("papers", 1))
    \o NL \o NL

\* papers[:self.MAX_PAPERS_DISPLAY]
papers_to_display(ps) ==
    SubSeq(ps, 1, IF Len(ps) < MAX_PAPERS_DISPLAY THEN Len(ps) ELSE MAX_PAPERS_DISPLAY)

\* the list result of FeishuFormatter.format_report
FeishuParts(ps) ==
    << FeishuHeader(Len(papers_to_display(ps)), Len(ps)) >>
    \o PaperParts("FeishuFormatter", papers_to_display(ps))
    \o << Footer(Len(ps)) >>

\* [line for line in lines if line.strip()]
RECURSIVE WithoutBlank(_)
WithoutBlank(parts) ==
    IF parts = << >> THEN << >>
    ELSE IF IsBlank(Head(parts)) THEN WithoutBlank(Tail(parts))
    ELSE << Head(parts) >> \o WithoutBlank(Tail(parts))

\* [line for line in compressed_lines if line != '---']
RECURSIVE WithoutSeparators(_)
WithoutSeparators(parts) ==
    IF parts = << >> THEN << >>
    ELSE IF Head(parts) = Separator THEN WithoutSeparators(Tail(parts))
    ELSE << Head(parts) >> \o WithoutSeparators(Tail(parts))

\* FeishuFormatter._compress_message(message, lines): lines is the list
\* result, whose elements are whole parts of the report
FeishuFormatterCompress(lines, max_length) ==
    LET compressed_lines == WithoutBlank(lines)
        compressed == Join(compressed_lines, NL)
    IN  IF StrBytes(compressed) > max_length
        THEN Join(WithoutSeparators(compressed_lines), NL)
        ELSE compressed

\* the message of format_report before the size check
Rendering(cls, ps) ==
    Join(IF cls = "WeChatFormatter" THEN WeChatParts(ps) ELSE FeishuParts(ps), NL)

\* the size that format_report compares with max_length: characters for
\* WeChatFormatter, UTF-8 bytes for FeishuFormatter
Size(cls, m) == IF cls = "WeChatFormatter" THEN StrLen(m) ELSE StrBytes(m)

\* cls(max_length).format_report(ps, {'date': date})
format_report(cls, ps, max_length) ==
    LET m == Rendering(cls, ps)
    IN  IF Size(cls, m) > max_length
        THEN IF cls = "WeChatFormatter"
             THEN _truncate_message(m, max_length)
             ELSE FeishuFormatterCompress(FeishuParts(ps), max_length)
        ELSE m

(* ------------------------- papers explored ---------------------------- *)

\* an LLM summary in the template: title line, original title, first
\* author with institution, and the three sections
Template(title_zh, title_en, author) ==
    TitleMarker \o title_zh \o NL
    \o OrigTitleMarker \o title_en \o NL
    \o AuthorMarker \o author \o A(<<" ", "|", " ">>) \o Lit("MIT", 3) \o NL \o NL
    \o SummaryHeader \o NL \o Lit("summary line", 12) \o NL \o NL
    \o InnovationsHeader \o NL
    \o A(<<"*", " ">>) \o Lit("one", 3) \o NL
    \o A(<<"*", " ">>) \o Lit("two", 3) \o NL \o NL
    \o CommentHeader \o NL \o Lit("comment", 7) \o NL

\* a fetched paper that was not summarized
Paper1 ==
    [title |-> Lit("title1", 6), authors |-> << Lit("Ann", 3), Lit("Bob", 3) >>,
     url |-> Lit("http://x/1", 10), source |-> Lit("arXiv", 5),
     abstract |-> Lit("abstract1", 9)]

\* a summarized paper
Paper2 ==
    [title |-> Lit("title2", 6), authors |-> << Lit("Bo", 2) >>,
     url |-> Lit("http://x/2", 10), source |-> Lit("arXiv", 5),
     abstract |-> Lit("abstract2", 9),
     summary |-> Template(Z("title_zh2", 3), Lit("title2", 6), Lit("Bo", 2))]

\* a paper with neither authors nor source, and a URL of 12010 characters
Paper3 ==
    [title |-> Lit("title3", 6), url |-> Lit("http://x/3", 10) \o X(12000),
     abstract |-> Lit("abstract3", 9)]

\* a summarized paper with an empty author list and a title of 5003
\* characters
Paper4 ==
    [title |-> Lit("title4", 6) \o X(4997), authors |-> << >>,
     url |-> Lit("http://x/4", 10), source |-> Lit("Springer", 8),
     abstract |-> Lit("abstract4", 9),
     summary |-> Template(Z("title_zh4", 3) \o X(5000), Lit("title4", 6) \o X(4997),
                          Lit("Cy", 2))]

Papers == {Paper1, Paper2, Paper3, Paper4}

PaperLists == UNION {[1..n -> Papers] : n \in 0..MaxPapers}

Formatters == {"MarkdownFormatter", "WeChatFormatter", "FeishuFormatter"}

\* the max_length a formatter is built with: its default, or 300
MaxLengths(cls) == {DefaultMaxLength(cls), 300}

\* cls(max_length).format_report(ps)
FormatReport(cls, ps, max_length) ==
    /\ call = "none"
    /\ call' = "format_report"
    /\ args' = [cls |-> cls, papers |-> ps, max_length |-> max_length]
    /\ ret' = format_report(cls, ps, max_length)
    /\ UNCHANGED <<sendvars, segvars, parsevars>>

\* cls().format_paper(paper)
FormatPaper(cls, paper) ==
    /\ call = "none"
    /\ call' = "format_paper"
    /\ args' = [cls |-> cls, paper |-> paper]
    /\ ret' = format_paper(cls, paper)
    /\ UNCHANGED <<sendvars, segvars, parsevars>>

(* ------------------- the size of a formatted report ------------------- *)

\* C14: WeChatFormatter.format_report returns at most max_length
\* characters, and a rendering that was over the budget comes back with the
\* truncation notice at its end, still within max_length characters.
C14_CharacterBudget ==
    (call = "format_report" /\ args.cls = "WeChatFormatter") =>
        /\ StrLen(ret) <= args.max_length
        /\ StrLen(Rendering(args.cls, args.papers)) > args.max_length
              => EndsWith(ret, TruncationNotice)

\* C15: FeishuFormatter.format_report returns at most max_length bytes of
\* UTF-8, however long the titles, authors or URLs of the papers are.
C15_ByteBudget ==
    (call = "format_report" /\ args.cls = "FeishuFormatter") =>
        StrBytes(ret) <= args.max_length

\* the lines of m that are not blank, and those that are not '---' either
NoBlankLines(m) ==
    Join(SelectSeq(SplitLines(m), LAMBDA l : ~IsBlank(l)), NL)

NoSeparatorLines(m) ==
    Join(SelectSeq(SplitLines(m), LAMBDA l : l # Separator), NL)

\* C16: a rendering over the budget goes through the compression pass in
\* order: the blank lines are removed; the separator lines are removed only
\* if that is still over the budget; and if that is still over the budget,
\* the message is cut and ends with the truncation notice.
C16_CompressionOrder ==
    (call = "format_report"
       /\ Size(args.cls, Rendering(args.cls, args.papers)) > args.max_length) =>
        LET s1 == NoBlankLines(Rendering(args.cls, args.papers))
            s2 == NoSeparatorLines(s1)
        IN  IF Size(args.cls, s1) <= args.max_length THEN ret = s1
            ELSE IF Size(args.cls, s2) <= args.max_length THEN ret = s2
            ELSE EndsWith(ret, TruncationNotice)

\* C17: for a list longer than the display cap, format_report renders the
\* first papers up to the cap, in input order, and no paper beyond the cap
\* appears in the output (a paper is recognised by its url).
C17_DisplayCap ==
    (call = "format_report" /\ Len(args.papers) > MAX_PAPERS_DISPLAY) =>
        LET ps == args.papers
            shown == SubSeq(ps, 1, MAX_PAPERS_DISPLAY)
        IN  /\ \A i \in (MAX_PAPERS_DISPLAY + 1)..Len(ps) :
                  (\A j \in 1..MAX_PAPERS_DISPLAY : ps[j].url # ps[i].url)
                      => ~Contains(ret, ps[i].url)
            /\ Size(args.cls, Rendering(args.cls, ps)) <= args.max_length
                  => Contains(ret, Join(PaperParts(args.cls, shown), NL))

\* C18: for a paper without the field summary, format_paper of every
\* formatter renders the paper's own fields: the output contains its title,
\* its first author ('Unknown' when it has none), its url and its source.
C18_MinimalRendering ==
    (call = "format_paper" /\ "summary" \notin DOMAIN args.paper) =>
        /\ Contains(ret, args.paper["title"])
        /\ Contains(ret, FirstAuthor(args.paper))
        /\ "url" \in DOMAIN args.paper => Contains(ret, args.paper["url"])
        /\ "source" \in DOMAIN args.paper => Contains(ret, args.paper["source"])

(* ------------------------- deduplicate_papers ------------------------- *)

\* value = paper.get(key) is truthy: the key is there and its value is not
\* the empty string (papers are dicts; a missing key gives None)
HasValue(paper, key) == key \in DOMAIN paper /\ paper[key] # << >>

SeenForgets(seen, value) == seen

\* seen.add(value)
SeenAdd(seen, value) == seen \cup {value}

\* the for loop of deduplicate_papers
RECURSIVE DedupLoop(_, _, _, _)
DedupLoop(ps, key, seen, unique) ==
    IF ps = << >> THEN unique
    ELSE IF HasValue(Head(ps), key) /\ Head(ps)[key] \notin seen
    THEN DedupLoop(Tail(ps), key, SeenAdd(seen, Head(ps)[key]), Append(unique, Head(ps)))
    ELSE DedupLoop(Tail(ps), key, seen, unique)

deduplicate_papers(ps, key) == DedupLoop(ps, key, {}, << >>)

\* the papers given to deduplicate_papers: title a with each url (empty,
\* three different ones, none at all), title b with a url of a and with
\* the empty one
DedupPapers ==
    {[title |-> Lit("a", 1), url |-> u] :
        u \in {<< >>, Lit("http://x/1", 10), Lit("http://x/2", 10), Lit("http://x/3", 10)}}
    \cup {[title |-> Lit("a", 1)]}
    \cup {[title |-> Lit("b", 1), url |-> u] : u \in {<< >>, Lit("http://x/1", 10)}}

DedupLists == UNION {[1..n -> DedupPapers] : n \in 0..MaxPapers}

\* deduplicate_papers(ps, key)
Deduplicate(ps, key) ==
    /\ call = "none"
    /\ call' = "deduplicate_papers"
    /\ args' = [papers |-> ps, key |-> key]
    /\ ret' = deduplicate_papers(ps, key)
    /\ UNCHANGED <<sendvars, segvars, parsevars>>

\* the dedup key of a paper, a missing key being a key of its own
KeyOf(paper, key) == IF key \in DOMAIN paper THEN <<"value", paper[key]>> ELSE <<"None">>

\* the elements of ps at the positions of the set I, in the order of ps
Restrict(ps, I) ==
    [k \in 1..Cardinality(I) |->
        ps[CHOOSE i \in I : Cardinality({j \in I : j <= i}) = k]]

C21_UniqueInputKept ==
    (call = "deduplicate_papers"
       /\ \A i, j \in 1..Len(args.papers) :
             i # j => KeyOf(args.papers[i], args.key) # KeyOf(args.papers[j], args.key))
        => ret = args.papers

(* ----------------- _parse_llm_summary, line by line ------------------- *)

\* lines of a text made of single lines
MaxParseLines == 3

Sections == {"summary", "innovations", "comment"}

\* the spellings of a section header: the one of the template, without
\* the emoji, and with bold markers around the name
Spellings == {"emoji", "plain", "bold", "bold_plain"}

SectionEmoji(sec) ==
    IF sec = "summary" THEN E("target")
    ELSE IF sec = "innovations" THEN E("bulb") ELSE E("monocle")

SectionName(sec) ==
    IF sec = "summary" THEN Z("core_summary", 4)
    ELSE IF sec = "innovations" THEN Z("core_innovations", 8) ELSE Z("comment", 5)

\* the header line of a section in a spelling
HeaderSpelled(sec, spelling) ==
    IF spelling = "emoji"
    THEN A(<<"#", "#", "#", " ">>) \o SectionEmoji(sec) \o A(<<" ">>) \o SectionName(sec)
    ELSE IF spelling = "plain"
    THEN A(<<"#", "#", "#", " ">>) \o SectionName(sec)
    ELSE IF spelling = "bold"
    THEN A(<<"#", "#", "#", " ", "*", "*">>) \o SectionEmoji(sec) \o A(<<" ">>)
         \o SectionName(sec) \o A(<<"*", "*">>)
    ELSE A(<<"#", "#", "#", " ", "*", "*">>) \o SectionName(sec) \o A(<<"*", "*">>)

\* content lines of the sections as the template has them, each with the
\* string the section list is to hold for it: plain sentences for summary
\* and comment, bullets for innovations
Sample(raw, stored) == [raw |-> raw, stored |-> stored]

SectionSamples(sec) ==
    IF sec = "summary"
    THEN {Sample(A(<<" ">>) \o Lit("summary line", 12) \o A(<<" ">>), Lit("summary line", 12)),
          Sample(Z("zh_summary", 20), Z("zh_summary", 20))}
    ELSE IF sec = "innovations"
    THEN {Sample(A(<<"*", " ">>) \o Lit("one", 3), Lit("one", 3)),
          Sample(A(<<"*", " ", "*", "*">>) \o Lit("two", 3) \o A(<<"*", "*", ":", " ">>)
                     \o Lit("x", 1),
                 Lit("two", 3) \o A(<<":", " ">>) \o Lit("x", 1))}
    ELSE {Sample(Lit("comment", 7), Lit("comment", 7)),
          Sample(Z("zh_comment", 9), Z("zh_comment", 9))}

\* the content of a populated section: one or two lines
Bodies(sec) ==
    {<< a >> : a \in SectionSamples(sec)}
    \cup {<< a, b >> : a \in SectionSamples(sec), b \in SectionSamples(sec)}

\* the lines of a section of the template: header, content, blank line; no
\* line at all for a missing section
SectionLines(sec, body, spelling) ==
    IF body = << >> THEN << >>
    ELSE << HeaderSpelled(sec, spelling) >> \o [k \in 1..Len(body) |-> body[k].raw]
         \o << << >> >>

\* the text of _build_prompt's layout with the given sections
TemplateText(summary, innovations, comment, spelling) ==
    Join(<< TitleMarker \o Z("title_zh", 3),
            OrigTitleMarker \o Lit("title", 5),
            AuthorMarker \o Lit("Bo", 2) \o A(<<" ", "|", " ", "*", "*">>)
                \o Z("institution", 2) \o A(<<"*", "*">>) \o Colon \o Z("unknown", 2),
            << >> >>
         \o SectionLines("summary", summary, spelling)
         \o SectionLines("innovations", innovations, spelling)
         \o SectionLines("comment", comment, spelling),
         NL)

TemplateDoc(summary, innovations, comment, spelling) ==
    [kind |-> "template", spelling |-> spelling,
     summary |-> summary, innovations |-> innovations, comment |-> comment,
     text |-> TemplateText(summary, innovations, comment, spelling)]

\* templates in the spelling of the prompt with every choice of sections,
\* and one template per other spelling
TemplateDocs ==
    {TemplateDoc(s, i, c, "emoji") :
        s \in Bodies("summary") \cup {<< >>},
        i \in Bodies("innovations") \cup {<< >>},
        c \in Bodies("comment") \cup {<< >>}}
    \cup {TemplateDoc(<< CHOOSE a \in SectionSamples("summary") : TRUE >>,
                      << CHOOSE a \in SectionSamples("innovations") : TRUE >>,
                      << CHOOSE a \in SectionSamples("comment") : TRUE >>,
                      spelling) : spelling \in Spellings}

\* single lines: blank, plain, bold, a deeper heading, a bullet, stars
\* only, the three headers, a title line, a source line
ParseLineSamples ==
    {A(<<" ">>), Lit("plain text", 10),
     A(<<"*", "*">>) \o Lit("note", 4) \o A(<<"*", "*">>),
     A(<<"#", "#", "#", "#", " ">>) \o Lit("sub", 3),
     A(<<"*", " ">>) \o Lit("star", 4), A(<<"*", "*", "*">>),
     SummaryHeader, InnovationsHeader, CommentHeader,
     TitleMarker \o Lit("t", 1), SourceMarker \o Lit("arXiv", 5)}

\* texts of up to MaxParseLines such lines, the empty string among them
LineDocs ==
    {[kind |-> "lines", text |-> Join(ls, NL)] :
        ls \in UNION {[1..n -> ParseLineSamples] : n \in 0..MaxParseLines}}

ParseDocs == TemplateDocs \cup LineDocs

\* self._parse_llm_summary(summary) up to the for loop
ParseBegin(cls, doc) ==
    /\ parse_pc = "none"
    /\ parse_pc' = "loop"
    /\ parse_lines' = SplitLines(doc.text)
    /\ parse_result' = EmptyParsed(cls)
    /\ current_section' = InitialSection
    /\ call' = "_parse_llm_summary"
    /\ args' = [cls |-> cls, doc |-> doc]
    /\ ret' = << >>
    /\ UNCHANGED <<sendvars, segvars>>

\* one turn of the for loop
ParseStep ==
    /\ parse_pc = "loop"
    /\ parse_lines # << >>
    /\ LET st == ParseLine(args.cls, Head(parse_lines), parse_result, current_section)
       IN  /\ parse_result' = st.parsed
           /\ current_section' = st.current_section
    /\ parse_lines' = Tail(parse_lines)
    /\ UNCHANGED <<parse_pc, sendvars, segvars, callvars>>

\* return result
ParseReturn ==
    /\ parse_pc = "loop"
    /\ parse_lines = << >>
    /\ parse_pc' = "returned"
    /\ ret' = parse_result
    /\ UNCHANGED <<parse_lines, parse_result, current_section, call, args,
                   sendvars, segvars>>

ParseNext ==
    \/ parse_pc = "none" /\ \E cls \in {"WeChatFormatter", "FeishuFormatter"},
                                doc \in ParseDocs : ParseBegin(cls, doc)
    \/ ParseStep
    \/ ParseReturn

ParseSpec == Init /\ [][ParseNext]_vars

\* the strings a section list is to hold for a body
Stored(body) == [k \in 1..Len(body) |-> body[k].stored]

\* C22: from a well-formed template the parser returns each populated
\* section's lines in source order (so all three lists are non-empty when
\* all three sections are populated); a missing section has an empty list,
\* and the other sections are as they are when that section is there.
C22_RoundTrip ==
    (parse_pc = "returned" /\ args.doc.kind = "template" /\ args.doc.spelling = "emoji") =>
        LET doc == args.doc
            with(sec, b) == Set(doc, sec, b)
            complete(sec, b) ==
                _parse_llm_summary(args.cls,
                    TemplateText(with(sec, b)["summary"], with(sec, b)["innovations"],
                                 with(sec, b)["comment"], "emoji"))
        IN  /\ \A sec \in Sections : ret["sections"][sec] = Stored(doc[sec])
            /\ \A sec \in Sections :
                  doc[sec] = << >> =>
                      \A b \in Bodies(sec) : \A other \in Sections \ {sec} :
                          ret["sections"][other] = complete(sec, b)["sections"][other]

\* a template with two different lines in each of the three sections
C22_Witness ==
    /\ parse_pc = "returned"
    /\ args.doc.kind = "template"
    /\ args.doc.spelling = "emoji"
    /\ \A sec \in Sections :
          /\ Len(args.doc[sec]) = 2
          /\ args.doc[sec][1] # args.doc[sec][2]
          /\ ret["sections"][sec] = << args.doc[sec][1].stored, args.doc[sec][2].stored >>

\* the markers that _parse_llm_summary matches a line against
Markers ==
    {TitleMarker, OrigTitleMarker, AuthorMarker, SummaryHeader, InnovationsHeader,
     CommentHeader, LinkMarker, SourceMarker}

IsSectionHeader(l) ==
    \E sec \in Sections : IsPrefix(HeaderSpelled(sec, "emoji"), l)

\* a line the parser recognizes: a marker line, or a bullet while the
\* innovations are open
Recognized(l, cur) ==
    \/ \E m \in Markers : IsPrefix(m, l)
    \/ IsPrefix(A(<<"*">>), l) /\ cur = "innovations"

\* the loop has read the line at the head of parse_lines
LineRead == parse_pc = "loop" /\ parse_lines # << >> /\ parse_lines' = Tail(parse_lines)

\* the line l went to the end of the open section and nothing else changed
StoredInOpenSection(l) ==
    parse_result' =
        [parse_result EXCEPT !["sections"][current_section] = Append(@, l)]

\* C23: the cursor changes only on a section header, which is not stored;
\* every unrecognized non-blank line is appended to the open section, or
\* dropped when none is open; a blank line changes nothing.
C23_CursorInvariant ==
    [][LineRead =>
          LET l == Strip(Head(parse_lines))
          IN  /\ current_section' # current_section => IsSectionHeader(l)
              /\ IsSectionHeader(l) => parse_result' = parse_result
              /\ l = << >> => UNCHANGED <<current_section, parse_result>>
              /\ (l # << >> /\ ~Recognized(l, current_section)) =>
                    IF current_section = ""
                    THEN parse_result' = parse_result
                    ELSE StoredInOpenSection(l)]_vars

\* C23 as the code has it: the cursor changes only on a section header,
\* which is not stored; an unrecognized non-blank line is dropped when no
\* section is open or when it starts with '#' or '**', and is appended to
\* the open section otherwise; a blank line changes nothing.
C23_CursorInvariantAmended ==
    [][LineRead =>
          LET l == Strip(Head(parse_lines))
          IN  /\ current_section' # current_section => IsSectionHeader(l)
              /\ IsSectionHeader(l) => parse_result' = parse_result
              /\ l = << >> => UNCHANGED <<current_section, parse_result>>
              /\ (l # << >> /\ ~Recognized(l, current_section)) =>
                    IF \/ current_section = ""
                       \/ IsPrefix(A(<<"#">>), l)
                       \/ IsPrefix(A(<<"*", "*">>), l)
                    THEN parse_result' = parse_result
                    ELSE StoredInOpenSection(l)]_vars

\* the summary header and a bold line have been read: the summary is open
\* and still empty, a plain line is next
C23_Witness ==
    /\ parse_pc = "loop"
    /\ args.doc.text = Join(<< SummaryHeader,
                               A(<<"*", "*">>) \o Lit("note", 4) \o A(<<"*", "*">>),
                               Lit("plain text", 10) >>, NL)
    /\ parse_lines = << Lit("plain text", 10) >>
    /\ current_section = "summary"
    /\ parse_result["sections"]["summary"] = << >>

\* C24: a section header opens its section in every spelling, with or
\* without the emoji and with or without bold markers: the lines under it
\* are in the section's list.
C24_HeaderSpellings ==
    (parse_pc = "returned" /\ args.doc.kind = "template") =>
        \A sec \in Sections :
            args.doc[sec] # << >> => ret["sections"][sec] = Stored(args.doc[sec])

\* no line of the text starts with a marker
NoMarker(text) ==
    \A k \in 1..Len(SplitLines(text)) :
        \A m \in Markers : ~IsPrefix(m, Strip(SplitLines(text)[k]))

\* C25: for a text without any recognized marker, the empty string
\* included, the parser returns empty titles, author and source and three
\* empty section lists.
C25_AllEmptyOnUnrecognized ==
    (parse_pc = "returned" /\ NoMarker(args.doc.text)) =>
        /\ \A f \in {"title_zh", "title_en", "author", "source"} : ret[f] = << >>
        /\ \A sec \in Sections : ret["sections"][sec] = << >>

\* a text of a plain line, a bold line and a bullet
C25_Witness ==
    /\ parse_pc = "returned"
    /\ args.doc.text = Join(<< Lit("plain text", 10),
                               A(<<"*", "*">>) \o Lit("note", 4) \o A(<<"*", "*">>),
                               A(<<"*", " ">>) \o Lit("star", 4) >>, NL)
    /\ \A sec \in Sections : ret["sections"][sec] = << >>

(* ------------- extract_clean_summary, validate_summary ---------------- *)

\* the first position of lines, from k on, whose line satisfies Test; 0
\* if there is none
FirstFrom(lines, k, Test(_)) ==
    IF \E i \in k..Len(lines) : Test(lines[i])
    THEN CHOOSE i \in k..Len(lines) :
             Test(lines[i]) /\ \A j \in k..(i - 1) : ~Test(lines[j])
    ELSE 0

\* '## ' followed by the page emoji, and the four characters of the title
\* marker
ReportStart == A(<<"#", "#", " ">>) \o E("page")

PaperTitleWord == Z("paper_title", 4)

\* the titles of a reasoning chapter that the stripped line is compared
\* with: two of the eleven
ReasoningTitles ==
    {A(<<"#", "#", "#", " ">>) \o Z("analysis", 2),
     A(<<"#", "#", "#", " ", "*", "*">>) \o Z("analysis", 2) \o A(<<"*", "*">>)}

Numbers == {"1", "2", "3", "4", "5", "6"}

\* stripped.startswith('### 1.') ... or stripped in [...]
IsReasoningHeader(stripped) ==
    \/ \E d \in Numbers : IsPrefix(A(<<"#", "#", "#", " ", d, ".">>), stripped)
    \/ stripped \in ReasoningTitles

\* stripped.startswith('1. **') ...
IsNumberedItem(stripped) ==
    \E d \in Numbers : IsPrefix(A(<<d, ".", " ", "*", "*">>), stripped)

\* a test that lets only a heading of the second level end a reasoning
\* section
IsReportChapterTitleOnly(stripped) == IsPrefix(A(<<"#", "#", " ">>), stripped)

\* a main chapter of the report, which ends a reasoning section
IsReportChapter(stripped) ==
    \/ IsPrefix(A(<<"#", "#", " ">>), stripped)
    \/ \E sec \in Sections :
          IsPrefix(A(<<"#", "#", "#", " ">>) \o SectionEmoji(sec), stripped)

\* the second loop of extract_clean_summary over the lines from the start
\* line on: result_lines
RECURSIVE CleanLoop(_, _, _)
CleanLoop(unread, skip_reasoning_section, result_lines) ==
    IF unread = << >> THEN result_lines
    ELSE LET line == Head(unread)
             stripped == Strip(line)
         IN  IF IsReasoningHeader(stripped)
             THEN CleanLoop(Tail(unread), TRUE, result_lines)
             ELSE IF skip_reasoning_section /\ IsNumberedItem(stripped)
             THEN CleanLoop(Tail(unread), TRUE, result_lines)
             ELSE LET skip == skip_reasoning_section /\ ~IsReportChapter(stripped)
                  IN  CleanLoop(Tail(unread), skip,
                                IF skip THEN result_lines ELSE Append(result_lines, line))

extract_clean_summary(text) ==
    LET lines == SplitLines(text)
        marked == FirstFrom(lines, 1,
                      LAMBDA l : Contains(l, ReportStart) \/ Contains(l, PaperTitleWord))
        start_idx == IF marked # 0 THEN marked
                     ELSE FirstFrom(lines, 1,
                              LAMBDA l : IsPrefix(A(<<"#", "#">>), Strip(l)))
    IN  IF start_idx = 0 THEN text
        ELSE Strip(Join(CleanLoop(SubSeq(lines, start_idx, Len(lines)), FALSE, << >>),
                        NL))

\* required_sections
required_sections == << SummaryHeader, InnovationsHeader, CommentHeader >>

\* validate_summary(content): the required headers that are not in content
validate_summary(text) ==
    SelectSeq(required_sections, LAMBDA section : ~Contains(text, section))

(* ---------------------- LLMClient.generate_summary -------------------- *)

\* the largest max_retries given to generate_summary
MaxAttempts == 3

\* Settings.LLM_MAX_RETRIES
LLM_MAX_RETRIES == 3

\* Settings.LLM_RETRY_DELAY, in seconds
LLM_RETRY_DELAY == 30

Warning == << Piece("warning", 1, 3) >>

EmptyContentText == Warning \o A(<<" ">>) \o Z("empty_content", 11)

RequestFailedText(e) ==
    Warning \o Lit(" API ", 5) \o Z("request_failed", 4) \o A(<<":", " ">>) \o e

SummaryFailedText == Warning \o A(<<" ">>) \o Z("summary_failed", 6)

OneLine(sec) == << CHOOSE a \in SectionSamples(sec) : TRUE >>

\* what the model may answer: the complete report; the report without
\* its comment; the complete report after a preamble and with a reasoning
\* chapter between title and sections; a report whose reasoning chapter is
\* never closed because its headers have no emoji; a text without any
\* heading
CompleteReport ==
    TemplateText(OneLine("summary"), OneLine("innovations"), OneLine("comment"), "emoji")

LLMContents ==
    {CompleteReport,
     TemplateText(OneLine("summary"), OneLine("innovations"), << >>, "emoji"),
     Join(<< Lit("Sure, here is the report", 24),
             TitleMarker \o Z("title_zh", 3),
             A(<<"#", "#", "#", " ", "1", ".", " ">>) \o Lit("Analysis", 8),
             A(<<"1", ".", " ", "*", "*">>) \o Lit("step", 4) \o A(<<"*", "*">>),
             Lit("thinking", 8) >>
          \o SectionLines("summary", OneLine("summary"), "emoji")
          \o SectionLines("innovations", OneLine("innovations"), "emoji")
          \o SectionLines("comment", OneLine("comment"), "emoji"),
          NL),
     Join(<< TitleMarker \o Z("title_zh", 3),
             A(<<"#", "#", "#", " ">>) \o Z("analysis", 2) >>
          \o SectionLines("summary", OneLine("summary"), "plain")
          \o SectionLines("innovations", OneLine("innovations"), "plain")
          \o SectionLines("comment", OneLine("comment"), "plain"),
          NL),
     Lit("I cannot help with that", 23)}

\* one call of chat.completions.create: it raises, or it answers with a
\* content, the empty one included
LLMOutcomes ==
    {[kind |-> "raise", content |-> << >>]}
    \cup {[kind |-> "content", content |-> c] : c \in LLMContents \cup {<< >>}}

MayAlwaysRetry(attempt_index, retries) == TRUE

\* attempt < max_retries - 1
MayRetry(attempt_index, retries) == attempt_index < retries - 1

\* max_retries or Settings.LLM_MAX_RETRIES
EffectiveRetries(max_retries_arg) ==
    IF max_retries_arg = 0 THEN LLM_MAX_RETRIES ELSE max_retries_arg

\* the for loop of generate_summary from attempt_index on (counted from 0),
\* o[k] being what the k-th call of the model does: the text returned, the
\* number of calls made and the seconds slept
RECURSIVE SummaryLoop(_, _, _, _)
SummaryLoop(o, retries, attempt_index, slept) ==
    IF attempt_index >= retries
    THEN [text |-> SummaryFailedText, calls |-> attempt_index, slept |-> slept]
    ELSE LET outcome == o[attempt_index + 1]
             done(t) == [text |-> t, calls |-> attempt_index + 1, slept |-> slept]
             again == SummaryLoop(o, retries, attempt_index + 1, slept + LLM_RETRY_DELAY)
         IN  IF outcome.kind = "raise"
             THEN IF MayRetry(attempt_index, retries) THEN again
                  ELSE done(RequestFailedText(Lit("timeout", 7)))
             ELSE IF outcome.content = << >> THEN done(EmptyContentText)
             ELSE LET cleaned == extract_clean_summary(outcome.content)
                  IN  IF validate_summary(cleaned) # << >>
                         /\ MayRetry(attempt_index, retries)
                      THEN again
                      ELSE done(cleaned)

generate_summary(max_retries_arg, o) ==
    SummaryLoop(o, EffectiveRetries(max_retries_arg), 0, 0)

\* LLMClient().generate_summary(paper, max_retries) with the model doing
\* o[k] at its k-th call
GenerateSummary(max_retries_arg, o) ==
    /\ call = "none"
    /\ call' = "generate_summary"
    /\ args' = [max_retries |-> max_retries_arg, outcomes |-> o]
    /\ ret' = generate_summary(max_retries_arg, o)
    /\ UNCHANGED <<sendvars, segvars, parsevars>>

\* what an answer is to generate_summary: complete when it has a content
\* whose cleaned text holds the three headers, incomplete when it has a
\* content whose cleaned text lacks one
Complete(outcome) ==
    /\ outcome.kind = "content"
    /\ outcome.content # << >>
    /\ \A k \in 1..3 :
          Contains(extract_clean_summary(outcome.content), required_sections[k])

Incomplete(outcome) ==
    /\ outcome.kind = "content"
    /\ outcome.content # << >>
    /\ ~Complete(outcome)

\* the k-th call is made: each call before it raised or was incomplete
Attempted(o, k) == \A j \in 1..(k - 1) : o[j].kind = "raise" \/ Incomplete(o[j])

MaxTopics == 2

\* max_retries of get_latest_papers_with_retry and of generate_summary, as
\* main passes them
MainMaxRetries == 3

\* papers[:5]
MainMaxPapers == 5

\* the paper that arXiv has for topic t
MainArxivPaper(t) ==
    [title |-> Lit("arxiv paper", 11) \o Digit(t), authors |-> << Lit("Ann", 3) >>,
     abstract |-> Lit("abstract", 8), url |-> Lit("http://arxiv.org/abs/", 21) \o Digit(t),
     published |-> Lit("2026-01-01", 10)]

\* one attempt of an arXiv search: it raises, or it yields one paper or none
SearchOutcomes == {"raise", "ok", "empty"}

\* get_latest_papers_with_retry(topic, 1, 3) from attempt_index on (counted
\* from 0), o[k] being what the k-th search does: the papers returned and
\* the searches made
RECURSIVE RetryLoop(_, _, _)
RetryLoop(t, o, attempt_index) ==
    IF attempt_index >= MainMaxRetries THEN [papers |-> << >>, calls |-> attempt_index]
    ELSE IF o[attempt_index + 1] = "raise"
    THEN RetryLoop(t, o, attempt_index + 1)
    ELSE [papers |-> IF o[attempt_index + 1] = "ok" THEN << MainArxivPaper(t) >> ELSE << >>,
          calls |-> attempt_index + 1]

get_latest_papers_with_retry(t, o) == RetryLoop(t, o, 0)

\* the searches of a topic that main is run with: three failures, a
\* failure then a paper, a paper at once, no paper
TopicRuns ==
    {<<"raise", "raise", "raise">>, <<"raise", "ok", "ok">>, <<"ok", "ok", "ok">>,
     <<"empty", "ok", "ok">>}

\* the entries of a Springer feed as get_papers_from_springer builds them:
\* one without authors, and one with an author and an empty link
SpringerNoAuthors ==
    [title |-> Lit("springer paper 1", 16), authors |-> << >>,
     abstract |-> Lit("abstract", 8), url |-> Lit("http://springer/1", 17),
     published |-> << >>, source |-> Lit("Springer", 8)]

SpringerNoLink ==
    [title |-> Lit("springer paper 2", 16), authors |-> << Lit("Cy", 2) >>,
     abstract |-> Lit("abstract", 8), url |-> << >>,
     published |-> << >>, source |-> Lit("Springer", 8)]

\* what reading one feed does: the papers of the entries read, and whether
\* an exception ended the reading
FeedOutcomes ==
    {[raised |-> TRUE, papers |-> << >>],
     [raised |-> FALSE, papers |-> << >>],
     [raised |-> FALSE, papers |-> << SpringerNoAuthors >>],
     [raised |-> FALSE, papers |-> << SpringerNoLink >>]}

\* get_papers_from_springer: the feeds in turn; the except clause of a
\* failing feed keeps what was appended before
RECURSIVE get_papers_from_springer(_)
get_papers_from_springer(feeds) ==
    IF feeds = << >> THEN << >>
    ELSE Head(feeds).papers \o get_papers_from_springer(Tail(feeds))

\* all_papers after the arXiv topics: the papers of each topic in turn
RECURSIVE ArxivPapers(_, _)
ArxivPapers(runs, t) ==
    IF t > Len(runs) THEN << >>
    ELSE get_latest_papers_with_retry(t, runs[t]).papers \o ArxivPapers(runs, t + 1)

\* the deduplication inside main: url = paper.get('url', ''); the first
\* paper of each url is kept
RECURSIVE MainDedupLoop(_, _, _)
MainDedupLoop(ps, seen_urls, unique_papers) ==
    IF ps = << >> THEN unique_papers
    ELSE LET url == Get(Head(ps), "url", << >>)
         IN  IF url \notin seen_urls
             THEN MainDedupLoop(Tail(ps), seen_urls \cup {url}, Append(unique_papers, Head(ps)))
             ELSE MainDedupLoop(Tail(ps), seen_urls, unique_papers)

MainDedup(ps) == MainDedupLoop(ps, {}, << >>)

FirstPapers(ps) == SubSeq(ps, 1, IF Len(ps) < MainMaxPapers THEN Len(ps) ELSE MainMaxPapers)

\* how the model answers during a run: always completely, always without
\* the comment section, or never (every call raises)
LLMModes == {"complete", "incomplete", "raise"}

ModeOutcome(mode) ==
    IF mode = "raise" THEN [kind |-> "raise", content |-> << >>]
    ELSE [kind |-> "content",
          content |-> IF mode = "complete" THEN CompleteReport
                      ELSE TemplateText(OneLine("summary"), OneLine("innovations"),
                                        << >>, "emoji")]

\* the prompt of main's generate_summary has paper['authors'][0] in it,
\* which raises IndexError for an empty list
PromptBuilt(paper) == IF paper["authors"] = << >> THEN "IndexError" ELSE "ok"

\* main's generate_summary(paper, max_retries=3): the exception that leaves
\* it ("" if none) and the calls of the model made; its loop is the loop of
\* LLMClient.generate_summary
MainGenerateSummary(paper, mode) ==
    IF PromptBuilt(paper) # "ok" THEN [raised |-> PromptBuilt(paper), calls |-> 0]
    ELSE [raised |-> "",
          calls |-> SummaryLoop([k \in 1..MainMaxRetries |-> ModeOutcome(mode)],
                                MainMaxRetries, 0, 0).calls]

\* the loop of main over the papers: an exception ends it
RECURSIVE SummarizeAll(_, _, _, _)
SummarizeAll(ps, mode, calls, done) ==
    IF ps = << >> THEN [raised |-> "", calls |-> calls, summarized |-> done]
    ELSE LET r == MainGenerateSummary(Head(ps), mode)
         IN  IF r.raised # ""
             THEN [raised |-> r.raised, calls |-> calls + r.calls, summarized |-> done]
             ELSE SummarizeAll(Tail(ps), mode, calls + r.calls, done + 1)

\* main(): what a run does, given the searches per topic, the feeds, the
\* model's mode, the webhook and what a post to it does. Semantic Scholar
\* is disabled in SOURCES_CONFIG.
main(runs, feeds, mode, webhook, post_ok) ==
    LET all_papers == ArxivPapers(runs, 1) \o get_papers_from_springer(feeds)
        papers == FirstPapers(MainDedup(all_papers))
        r == SummarizeAll(papers, mode, 0, 0)
        finished == papers # << >> /\ r.raised = ""
    IN  [papers |-> papers,
         raised |-> IF papers = << >> THEN "" ELSE r.raised,
         llm_calls |-> IF papers = << >> THEN 0 ELSE r.calls,
         report_written |-> finished,
         posts |-> IF finished /\ webhook # "" THEN 1 ELSE 0,
         delivered |-> finished /\ webhook # "" /\ post_ok]

\* python main.py
RunMain(runs, feeds, mode, webhook, post_ok) ==
    /\ call = "none"
    /\ call' = "main"
    /\ args' = [runs |-> runs, feeds |-> feeds, mode |-> mode, webhook |-> webhook,
                post_ok |-> post_ok]
    /\ ret' = main(runs, feeds, mode, webhook, post_ok)
    /\ UNCHANGED <<sendvars, segvars, parsevars>>

\* C27: a run with no paper fetched makes no summarization call, writes
\* no report and sends nothing; every other run goes to its end whatever
\* fails: the report is written and, with a webhook, the delivery is made.
C27_OnlyEmptyAborts ==
    call = "main" =>
        /\ ret.raised = ""
        /\ ret.papers = << >> =>
              ret.llm_calls = 0 /\ ~ret.report_written /\ ret.posts = 0
        /\ ret.papers # << >> =>
              /\ ret.llm_calls >= Len(ret.papers)
              /\ ret.report_written
              /\ args.webhook # "" => ret.posts = 1

(* -------------------------- the paper sources -------------------------- *)

\* max_retries of ArxivSource.fetch_papers
ArxivMaxRetries == 3

\* the Paper that ArxivSource builds from the result of topic t
ArxivSourcePaper(t) ==
    [title |-> Lit("arxiv paper", 11) \o Digit(t), authors |-> << Lit("Ann", 3) >>,
     abstract |-> Lit("abstract", 8), url |-> Lit("http://arxiv.org/abs/", 21) \o Digit(t),
     published |-> Lit("2026-01-01", 10), source |-> Lit("ArXiv", 5)]

\* the Paper that SpringerSource builds from the entry of feed u
SpringerSourcePaper(u) ==
    [title |-> Lit("springer paper", 14) \o Digit(u), authors |-> << >>,
     abstract |-> Lit("abstract", 8), url |-> Lit("http://springer/", 16) \o Digit(u),
     published |-> << >>, source |-> Lit("Springer", 8)]

\* one search or one reading of a feed: the results it yields and the
\* exception that ends it ("" if none): it fails at once, fails after one
\* result, or gives one result
FetchOutcomes ==
    {[exc |-> "HTTPError", results |-> 0],
     [exc |-> "UnexpectedEmptyPageError", results |-> 1],
     [exc |-> "", results |-> 1]}

SourceCaughtHttpOnly(e) == e = "HTTPError"

\* except Exception as e, in both sources
SourceCaught(e) == TRUE

\* the attempts of ArxivSource.fetch_papers on topic t from attempt_index
\* on (counted from 0), o[k] being what the k-th search does: the list
\* papers afterwards, the searches made and the exception that escapes
RECURSIVE ArxivAttempts(_, _, _, _)
ArxivAttempts(t, o, attempt_index, papers) ==
    IF attempt_index >= ArxivMaxRetries
    THEN [papers |-> papers, calls |-> attempt_index, raised |-> ""]
    ELSE LET out == o[attempt_index + 1]
             topic_papers == [k \in 1..out.results |-> ArxivSourcePaper(t)]
         IN  IF out.exc = ""
             THEN [papers |-> papers \o topic_papers, calls |-> attempt_index + 1,
                   raised |-> ""]
             ELSE IF SourceCaught(out.exc)
             THEN ArxivAttempts(t, o, attempt_index + 1, papers)
             ELSE [papers |-> papers, calls |-> attempt_index + 1, raised |-> out.exc]

\* the loop of ArxivSource.fetch_papers over its topics from topic t on;
\* calls[t] is the number of searches made for topic t
RECURSIVE ArxivTopics(_, _, _, _)
ArxivTopics(runs, t, papers, calls) ==
    IF t > Len(runs) THEN [papers |-> papers, calls |-> calls, raised |-> ""]
    ELSE LET r == ArxivAttempts(t, runs[t], 0, papers)
         IN  IF r.raised # ""
             THEN [papers |-> << >>, calls |-> Append(calls, r.calls), raised |-> r.raised]
             ELSE ArxivTopics(runs, t + 1, r.papers, Append(calls, r.calls))

\* ArxivSource.fetch_papers
ArxivFetch(enabled, runs) ==
    IF ~enabled THEN [papers |-> << >>, calls |-> << >>, raised |-> ""]
    ELSE ArxivTopics(runs, 1, << >>, << >>)

\* the loop of SpringerSource.fetch_papers over its urls from feed u on;
\* each entry read is appended at once
RECURSIVE SpringerFeeds(_, _, _, _)
SpringerFeeds(feeds, u, papers, calls) ==
    IF u > Len(feeds) THEN [papers |-> papers, calls |-> calls, raised |-> ""]
    ELSE LET out == feeds[u]
             read == papers \o [k \in 1..out.results |-> SpringerSourcePaper(u)]
         IN  IF out.exc = "" \/ SourceCaught(out.exc)
             THEN SpringerFeeds(feeds, u + 1, read, Append(calls, 1))
             ELSE [papers |-> << >>, calls |-> Append(calls, 1), raised |-> out.exc]

\* SpringerSource.fetch_papers
SpringerFetch(enabled, feeds) ==
    IF ~enabled THEN [papers |-> << >>, calls |-> << >>, raised |-> ""]
    ELSE SpringerFeeds(feeds, 1, << >>, << >>)

\* ArxivSource(config).fetch_papers()
ArxivFetchPapers(enabled, runs) ==
    /\ call = "none"
    /\ call' = "ArxivSource.fetch_papers"
    /\ args' = [enabled |-> enabled, runs |-> runs]
    /\ ret' = ArxivFetch(enabled, runs)
    /\ UNCHANGED <<sendvars, segvars, parsevars>>

\* SpringerSource(config).fetch_papers()
SpringerFetchPapers(enabled, feeds) ==
    /\ call = "none"
    /\ call' = "SpringerSource.fetch_papers"
    /\ args' = [enabled |-> enabled, runs |-> feeds]
    /\ ret' = SpringerFetch(enabled, feeds)
    /\ UNCHANGED <<sendvars, segvars, parsevars>>

\* the first search of a run that succeeds (0 if none does)
FirstSuccess(o) ==
    IF \E k \in 1..ArxivMaxRetries : o[k].exc = ""
    THEN CHOOSE k \in 1..ArxivMaxRetries :
             o[k].exc = "" /\ \A j \in 1..(k - 1) : o[j].exc # ""
    ELSE 0

\* the papers a source returned that came from topic or feed t
PapersOf(t) ==
    SelectSeq(ret.papers, LAMBDA p : p.url = ArxivSourcePaper(t).url
                                     \/ p.url = SpringerSourcePaper(t).url)

\* C28: fetch_papers of ArxivSource and of SpringerSource never raises; a
\* disabled source returns the empty list after no request; ArxivSource
\* searches each topic at most 3 times, stops at the first search that
\* succeeds, returns nothing for a topic whose searches all fail, and
\* returns the papers of every other topic.
C28_SourceBoundary ==
    call \in {"ArxivSource.fetch_papers", "SpringerSource.fetch_papers"} =>
        /\ ret.raised = ""
        /\ ~args.enabled => ret.papers = << >> /\ ret.calls = << >>
        /\ (args.enabled /\ call = "ArxivSource.fetch_papers") =>
              /\ Len(ret.calls) = Len(args.runs)
              /\ \A t \in 1..Len(args.runs) :
                    /\ ret.calls[t] <= ArxivMaxRetries
                    /\ FirstSuccess(args.runs[t]) = 0 =>
                          ret.calls[t] = ArxivMaxRetries /\ PapersOf(t) = << >>
                    /\ FirstSuccess(args.runs[t]) # 0 =>
                          /\ ret.calls[t] = FirstSuccess(args.runs[t])
                          /\ PapersOf(t) = << ArxivSourcePaper(t) >>

\* reached: a fetch whose first topic fails three times, once after
\* yielding a result, and whose second topic succeeds at the third search
C28_Witness ==
    /\ call = "ArxivSource.fetch_papers"
    /\ args.enabled
    /\ Len(args.runs) = 2
    /\ FirstSuccess(args.runs[1]) = 0
    /\ \E k \in 1..ArxivMaxRetries : args.runs[1][k].results = 1
    /\ FirstSuccess(args.runs[2]) = 3
    /\ ret.papers = << ArxivSourcePaper(2) >>
    /\ ret.calls = << 3, 3 >>

(* ------------------------ FeishuNotifier.send_report ------------------- *)

\* the names that the package formatters binds: its three imports
FormattersExports == {"BaseFormatter", "MarkdownFormatter", "WeChatFormatter"}

\* from formatters import name: the exception it raises ("" if none)
ImportFromFormatters(name) ==
    IF name \in FormattersExports THEN "" ELSE "ImportError"

\* the formatter argument: None, or an object with a format_report method
ReportFormatters == {"None", "plain", "rich"}

\* the papers argument, by the number of its papers
ReportPapers == {1, 2}

\* formatter.format_report(papers, metadata): a line per paper, after a
\* markdown head unless the formatter is the plain one
FormatterRendering(formatter, papers) ==
    (IF formatter = "plain" THEN << >> ELSE RichMessage)
    \o [k \in 1..papers |-> Line(<<"a">>, 0)]

\* the report_file argument: None (""), a path with no file, a path that
\* cannot be read, and the paths of a short report, of a long report, and
\* of a report whose only line is over MAX_REQUEST_SIZE
ReportFiles == {"", "missing", "unreadable", "short", "long", "wide"}

\* open(report_file).read(): the exception raised, or the content by lines
ReadReport(report_file) ==
    CASE report_file = "missing" -> [exc |-> "FileNotFoundError", content |-> << >>]
      [] report_file = "unreadable" -> [exc |-> "PermissionError", content |-> << >>]
      [] report_file = "short" -> [exc |-> "", content |-> PlainMessage]
      [] report_file = "wide" -> [exc |-> "", content |-> << Line(<<"w">>, 20480) >>]
      [] OTHER -> [exc |-> "",
                   content |-> << Line(<<"a">>, 12000), Line(<<"b">>, 12000),
                                  Line(<<"c">>, 12000) >>]

\* the head that _add_preview_header puts before the lines of the content:
\* the title (28 bytes), the hint (82 bytes) and a rule, two empty lines
\* after each
PreviewHeader ==
    << Line(<<"#", " ">>, 26), Line(<< >>, 0), Line(<< >>, 0),
       Line(<<">", " ", "*", "*", "t", "*", "*">>, 75), Line(<< >>, 0), Line(<< >>, 0),
       Line(<<"-", "-", "-">>, 0), Line(<< >>, 0), Line(<< >>, 0) >>

_add_preview_header(c) == PreviewHeader \o c

\* what send_report has done when it hands over to send or to
\* _send_segmented, or returns without either
ReportState(state, r, e, rendering) ==
    [state |-> state, result |-> r, raised |-> e, rendering |-> rendering]

\* send_report(papers, None, formatter, report_file) up to the rate-limit
\* step of its send, to the first send of _send_segmented, or to its return
SendReport(papers, formatter, report_file) ==
    /\ call = "none"
    /\ seg_pc = "none"
    /\ pc = "idle"
    /\ notifier = "feishu"
    /\ call' = "send_report"
    /\ args' = [papers |-> papers, formatter |-> formatter, report_file |-> report_file]
    /\ IF report_file # ""
       THEN LET f == ReadReport(report_file)
                content_with_preview == _add_preview_header(f.content)
            IN  IF f.exc # ""
                THEN /\ ret' = ReportState("returned", FALSE, "", << >>)
                     /\ UNCHANGED <<sendvars, segvars>>
                ELSE IF Utf8Len(content_with_preview) <= MAX_REQUEST_SIZE
                THEN /\ FeishuSend(content_with_preview)
                     /\ ret' = ReportState("send", FALSE, "", content_with_preview)
                     /\ UNCHANGED segvars
                ELSE /\ content' = content_with_preview
                     /\ segments' = Segments(content_with_preview)
                     /\ seg_i' = 1
                     /\ all_success' = TRUE
                     /\ seg_log' = << >>
                     /\ seg_pc' = "send"
                     /\ ret' = ReportState("_send_segmented", FALSE, "", content_with_preview)
                     /\ UNCHANGED sendvars
       ELSE IF formatter = "None" /\ ImportFromFormatters("FeishuFormatter") # ""
       THEN /\ ret' = ReportState("raised", FALSE, ImportFromFormatters("FeishuFormatter"),
                                  << >>)
            /\ UNCHANGED <<sendvars, segvars>>
       ELSE LET rendering == FormatterRendering(IF formatter = "None" THEN "FeishuFormatter"
                                                ELSE formatter, papers)
            IN  /\ FeishuSend(rendering)
                /\ ret' = ReportState("send", FALSE, "", rendering)
                /\ UNCHANGED segvars
    /\ UNCHANGED parsevars

\* send or _send_segmented has returned to send_report, which returns its
\* value; inside _send_full_report an exception of theirs is handled and
\* False returned
ReportReturn ==
    /\ call = "send_report"
    /\ \/ ret.state = "send" /\ pc = "idle"
       \/ ret.state = "_send_segmented" /\ seg_pc \in {"done", "raised"}
    /\ LET value == IF ret.state = "send" THEN result = "True" ELSE all_success
       IN  ret' = IF raised = "" THEN ReportState("returned", value, "", ret.rendering)
                  ELSE IF args.report_file # ""
                  THEN ReportState("returned", FALSE, "", ret.rendering)
                  ELSE ReportState("raised", FALSE, raised, ret.rendering)
    /\ UNCHANGED <<call, args, sendvars, segvars, parsevars>>

\* a FeishuNotifier on which send_report is called once
ReportNext ==
    \/ (\E arg \in Urls : FeishuInit(arg)) /\ UNCHANGED <<segvars, callvars, parsevars>>
    \/ \E papers \in ReportPapers, formatter \in ReportFormatters,
          report_file \in ReportFiles : SendReport(papers, formatter, report_file)
    \/ SegmentSend
    \/ RateLimit /\ UNCHANGED <<segvars, callvars, parsevars>>
    \/ MinuteSleep /\ UNCHANGED <<segvars, callvars, parsevars>>
    \/ PerSecond /\ UNCHANGED <<segvars, callvars, parsevars>>
    \/ (\E w \in SegWallTimes : PeakCheck(w)) /\ UNCHANGED <<segvars, callvars, parsevars>>
    \/ (\E o \in SegOutcomes : SendWithType(o)) /\ UNCHANGED <<segvars, callvars, parsevars>>
    \/ Backoff /\ UNCHANGED <<segvars, callvars, parsevars>>
    \/ RetryWait /\ UNCHANGED <<segvars, callvars, parsevars>>
    \/ (\E o \in SegOutcomes : RetryPost(o)) /\ UNCHANGED <<segvars, callvars, parsevars>>
    \/ SegmentReturn
    \/ ReportReturn

ReportSpec == Init /\ [][ReportNext]_vars

\* the texts posted by the delivery attempts (not the retries) of the
\* current send, in their order
Delivered == SelectSeq(sent, LAMBDA e : ~e.retry)

\* C29: send_report never raises. Without a report file it returns what
\* send returned on the rendering of the papers by the formatter given, or
\* by the default formatter of the channel when none is given. With a
\* report file it delivers the content of the file; when the file is missing
\* or cannot be read it returns False and nothing was sent.
C29_SendReport ==
    call = "send_report" =>
        /\ ret.raised = ""
        /\ ret.state # "raised"
        /\ (ret.state = "returned" /\ args.report_file = "") =>
              /\ args.formatter # "None" =>
                    ret.rendering = FormatterRendering(args.formatter, args.papers)
              /\ sends = 1
              /\ ret.result <=> result = "True"
              /\ webhook_url # "" =>
                    Delivered[1].text = _compress_message(ret.rendering, MAX_REQUEST_SIZE)
        /\ (ret.state = "returned" /\ args.report_file \in {"missing", "unreadable"}) =>
              ~ret.result /\ sends = 0 /\ sent = << >>
        /\ (ret.state = "returned" /\ args.report_file \in {"short", "long"}) =>
              /\ SubSeq(ret.rendering, Len(PreviewHeader) + 1, Len(ret.rendering))
                    = ReadReport(args.report_file).content
              /\ args.report_file = "short" =>
                    sends = 1 /\ (ret.result <=> result = "True")
              /\ args.report_file = "long" =>
                    /\ Flatten(segments) = ret.rendering
                    /\ sends = Len(segments)
                    /\ ret.result <=> all_success

\* C33: in the segmented delivery of a report file no content is lost: the
\* segments joined by line breaks are the preview header followed by the
\* content of the file, and the markdown body posted for a segment is that
\* segment, which the size guard of send never truncates.
C33_NoContentLost ==
    (call = "send_report" /\ ret.state = "_send_segmented") =>
        /\ Flatten(segments) = _add_preview_header(ReadReport(args.report_file).content)
        /\ seg_pc = "sending" =>
              \A i \in 1..Len(sent) :
                  sent[i].msg_type = "markdown" => sent[i].text = segments[seg_i]

(* ------------------- the sections of a formatted paper ----------------- *)

\* C34: for a paper whose summary text has a populated summary, innovations
\* and comment section, format_paper of WeChatFormatter and of
\* FeishuFormatter contains the shortened summary text, the first innovation
\* bullets up to the display cap, and the comment: the sections that
\* _parse_llm_summary extracted reach the section formatters.
C34_SectionsReachOutput ==
    (/\ call = "format_paper"
     /\ args.cls # "MarkdownFormatter"
     /\ "summary" \in DOMAIN args.paper) =>
        LET sec == _parse_llm_summary(args.cls, args.paper["summary"])["sections"]
        IN  (sec["summary"] # << >> /\ sec["innovations"] # << >>
             /\ sec["comment"] # << >>) =>
                /\ Contains(ret, _format_summary(args.cls, sec["summary"]))
                /\ Contains(ret, _format_innovations(args.cls, sec["innovations"]))
                /\ Contains(ret, _format_comment(args.cls, sec["comment"]))

(* --------------------- the two deduplications -------------------------- *)

\* C35: the deduplication by url written out in main and
\* deduplicate_papers with the key 'url' return the same papers for every
\* input, papers with an empty url or with none included.
C35_DedupsAgree ==
    (call = "deduplicate_papers" /\ args.key = "url") => ret = MainDedup(args.papers)

(* ------------------- extract_clean_summary called alone ---------------- *)

\* lines of an answer given to extract_clean_summary
MaxCleanLines == 4

\* the lines an answer is made of: the title line, the header of a
\* reasoning chapter, a numbered item, a plain line that ends with a space,
\* and the three required headers
CleanLineSamples ==
    {TitleMarker \o Z("title_zh", 3),
     A(<<"#", "#", "#", " ", "1", ".", " ">>) \o Lit("Analysis", 8),
     A(<<"1", ".", " ", "*", "*">>) \o Lit("step", 4) \o A(<<"*", "*">>),
     Lit("thinking", 8) \o A(<<" ">>),
     SummaryHeader, InnovationsHeader, CommentHeader}

CleanTexts ==
    {Join(ls, NL) : ls \in UNION {[1..n -> CleanLineSamples] : n \in 1..MaxCleanLines}}

\* extract_clean_summary(content)
ExtractCleanSummary(text) ==
    /\ call = "none"
    /\ call' = "extract_clean_summary"
    /\ args' = text
    /\ ret' = extract_clean_summary(text)
    /\ UNCHANGED <<sendvars, segvars, parsevars>>

\* the start line of an answer: the first line with the report marker or
\* the title word, else the first line that is a heading; 0 if there is
\* neither
StartLine(lines) ==
    LET Marked(l) == Contains(l, ReportStart) \/ Contains(l, PaperTitleWord)
        Heading(l) == IsPrefix(A(<<"#", "#">>), Strip(l))
        First(Test(_)) ==
            IF \E i \in 1..Len(lines) : Test(lines[i])
            THEN CHOOSE i \in 1..Len(lines) :
                     Test(lines[i]) /\ \A j \in 1..(i - 1) : ~Test(lines[j])
            ELSE 0
    IN  IF First(Marked) # 0 THEN First(Marked) ELSE First(Heading)

\* the line is a required section header
IsRequiredHeader(line) == \E k \in 1..3 : IsPrefix(required_sections[k], Strip(line))

\* the positions of the report part of an answer: from the start line on
ReportPart(lines) == StartLine(lines)..Len(lines)

\* every required header occurs in the report part
AllHeaders(lines) ==
    \A k \in 1..3 : \E i \in ReportPart(lines) : IsPrefix(required_sections[k], Strip(lines[i]))

\* C36 as stated: when a start line is detected, extract_clean_summary
\* returns lines of the input from the start line on, in their order and
\* as they are, joined by line breaks, every required header line among
\* them; and the text returned for a report part with the three headers
\* passes validate_summary.
C36_LinesAsTheyAre ==
    (call = "extract_clean_summary" /\ StartLine(SplitLines(args)) # 0) =>
        LET lines == SplitLines(args)
        IN  /\ \E I \in SUBSET ReportPart(lines) :
                  /\ ret = Join(Restrict(lines, I), NL)
                  /\ \A i \in ReportPart(lines) : IsRequiredHeader(lines[i]) => i \in I
            /\ AllHeaders(lines) => validate_summary(ret) = << >>

\* C36, amended: when a start line is detected, extract_clean_summary
\* returns lines of the input from the start line on, in their order,
\* joined by line breaks and with the white space at both ends of the whole
\* text removed; every required header line from the start line on is among
\* them, also after a reasoning chapter that was skipped; and the text
\* returned for a report part with the three headers passes
\* validate_summary.
C36_CleanKeepsHeaders ==
    (call = "extract_clean_summary" /\ StartLine(SplitLines(args)) # 0) =>
        LET lines == SplitLines(args)
        IN  /\ \E I \in SUBSET ReportPart(lines) :
                  /\ ret = Strip(Join(Restrict(lines, I), NL))
                  /\ \A i \in ReportPart(lines) : IsRequiredHeader(lines[i]) => i \in I
            /\ AllHeaders(lines) => validate_summary(ret) = << >>

\* the three headers after a reasoning chapter, which starts the answer:
\* the chapter header is dropped and the headers are returned
C36_Witness ==
    /\ call = "extract_clean_summary"
    /\ args = Join(<< A(<<"#", "#", "#", " ", "1", ".", " ">>) \o Lit("Analysis", 8),
                      SummaryHeader, InnovationsHeader, CommentHeader >>, NL)
    /\ ret = Join(<< SummaryHeader, InnovationsHeader, CommentHeader >>, NL)

(* --------------------- the functions called alone --------------------- *)

PureNext ==
    \/ call = "none" /\ \E c \in Contents : SplitContent(c)
    \/ call = "none" /\ \E cls \in {"WeChatFormatter", "FeishuFormatter"}, ps \in PaperLists :
          \E max_length \in MaxLengths(cls) : FormatReport(cls, ps, max_length)
    \/ call = "none" /\ \E cls \in Formatters, paper \in Papers : FormatPaper(cls, paper)
    \/ call = "none" /\ \E ps \in DedupLists, key \in {"url", "title"} : Deduplicate(ps, key)
    \/ call = "none" /\ \E max_retries_arg \in 0..MaxAttempts :
          \E o \in [1..EffectiveRetries(max_retries_arg) -> LLMOutcomes] :
              GenerateSummary(max_retries_arg, o)
    \/ call = "none" /\ \E runs \in UNION {[1..n -> TopicRuns] : n \in 0..MaxTopics},
          feeds \in [1..2 -> FeedOutcomes], mode \in LLMModes,
          webhook \in {"", "https://qyapi.weixin.qq.com/hook"}, post_ok \in BOOLEAN :
          RunMain(runs, feeds, mode, webhook, post_ok)
    \/ call = "none" /\ \E enabled \in BOOLEAN,
          runs \in UNION {[1..n -> [1..ArxivMaxRetries -> FetchOutcomes]] : n \in 0..MaxTopics} :
          ArxivFetchPapers(enabled, runs)
    \/ call = "none" /\ \E enabled \in BOOLEAN,
          feeds \in UNION {[1..n -> FetchOutcomes] : n \in 0..2} :
          SpringerFetchPapers(enabled, feeds)
    \/ call = "none" /\ \E text \in CleanTexts : ExtractCleanSummary(text)

PureSpec == Init /\ [][PureNext]_vars

====
